---- MODULE Spec2Model ----
(***************************************************************************)
(* The timeline ingestion and statistics engine of travelrecap.my          *)
(* (timeline-utils.js): getSegmentsFromData, normalizeActivityType,        *)
(* parseLatLngString, the offline country lookup, processTimelineData,     *)
(* calculateStats and calculateAdvancedStats.                              *)
(*                                                                         *)
(* JavaScript values.  A primitive value is a record [t, n, s]: t is the   *)
(* kind, n the payload of a number or boolean, s the characters of a       *)
(* string (a sequence of one-character strings, so that parsing and        *)
(* canonicalisation are computed character by character).  An object is a  *)
(* record with t = "object" and one field per property the code reads; an  *)
(* absent property holds Undef.                                            *)
(*                                                                         *)
(* Numbers are fixed-point: the number x is held as n = x * One, which is  *)
(* exact for the inputs drawn here (at most three decimals) and for the    *)
(* division by 1000 that turns whole metres into kilometres.  NaN is its   *)
(* own kind.  An ISO-8601 timestamp string is held as kind "iso" with n    *)
(* the instant it denotes, in milliseconds; Date parsing reads it back.    *)
(***************************************************************************)
EXTENDS Integers, Sequences, FiniteSets, TLC

VARIABLES
    countryLookupInstance,  \* the module-level CountryLookup singleton, or Null
    segments,               \* the segment objects of the loaded export, in input order
                            \* (shared by reference; processTimelineData caches the country on them)
    processed,              \* the last processTimelineData call: its arguments and result, or Undef
    stats,                  \* the last calculateStats call: its argument and result, or Undef
    advanced,               \* the last calculateAdvancedStats call: its argument and result, or Undef
    probe,                  \* a helper function under test: its argument and successive results
    dashboard               \* the page's state in script.js: the loaded list, the selected
                            \* year, the statistics caches and what is shown, or Undef

vars == <<countryLookupInstance, segments, processed, stats, advanced, probe, dashboard>>

----------------------------------------------------------------------------
(* Bounds of the model *)

MaxSegments == 2
MaxTypeLen == 3
\* the longest feature list of a country GeoJSON
MaxFeatures == 2
\* the model's calendar: a year lasts YearLength milliseconds
YearLength == 4
\* how often normalizeActivityType is applied to its own result
MaxApplications == 2

----------------------------------------------------------------------------
(* JavaScript values *)

One == 10 * 10 * 10

Undef == [t |-> "undefined", n |-> 0, s |-> <<>>]
Null == [t |-> "null", n |-> 0, s |-> <<>>]
NaN == [t |-> "nan", n |-> 0, s |-> <<>>]
True == [t |-> "boolean", n |-> 1, s |-> <<>>]
False == [t |-> "boolean", n |-> 0, s |-> <<>>]

\* the number whose fixed-point payload is n
Fix(n) == [t |-> "number", n |-> n, s |-> <<>>]
\* the integer k as a JS number
Num(k) == Fix(k * One)
Str(chars) == [t |-> "string", n |-> 0, s |-> chars]
\* the ISO timestamp string of instant ms (milliseconds)
Iso(ms) == [t |-> "iso", n |-> ms, s |-> <<>>]

IsString(v) == v.t \in {"string", "iso"}
IsNumber(v) == v.t \in {"number", "nan"}

\* ToBoolean: what `if (v)`, `!v`, `a || b`, `a && b` test
Truthy(v) ==
    CASE v.t = "undefined" -> FALSE
      [] v.t = "null" -> FALSE
      [] v.t = "nan" -> FALSE
      [] v.t = "number" -> v.n # 0
      [] v.t = "boolean" -> v.n = 1
      [] v.t = "string" -> v.s # <<>>
      [] OTHER -> TRUE

\* a || b and a && b
Or(a, b) == IF Truthy(a) THEN a ELSE b
And(a, b) == IF Truthy(a) THEN b ELSE a

WhiteSpace == {" ", "\t", "\n"}
Digits == <<"0", "1", "2", "3", "4", "5", "6", "7", "8", "9">>
IsDigit(c) == \E d \in 1..10 : Digits[d] = c
DigitVal(c) == (CHOOSE d \in 1..10 : Digits[d] = c) - 1

RECURSIVE TrimStart(_)
TrimStart(s) ==
    IF s # <<>> /\ Head(s) \in WhiteSpace THEN TrimStart(Tail(s)) ELSE s

RECURSIVE TrimEnd(_)
TrimEnd(s) ==
    IF s # <<>> /\ s[Len(s)] \in WhiteSpace THEN TrimEnd(SubSeq(s, 1, Len(s) - 1)) ELSE s

\* String.prototype.trim
Trim(s) == TrimEnd(TrimStart(s))

\* length of the longest prefix of s made of decimal digits
RECURSIVE DigitRun(_)
DigitRun(s) ==
    IF s # <<>> /\ IsDigit(Head(s)) THEN 1 + DigitRun(Tail(s)) ELSE 0

\* value of a digit string as an integer
RECURSIVE IntDigits(_)
IntDigits(s) ==
    IF s = <<>> THEN 0 ELSE 10 * IntDigits(SubSeq(s, 1, Len(s) - 1)) + DigitVal(s[Len(s)])

\* fixed-point value of the digits after a decimal point (weight = One at the point)
RECURSIVE FracDigits(_, _)
FracDigits(s, weight) ==
    IF s = <<>> THEN 0
    ELSE DigitVal(Head(s)) * (weight \div 10) + FracDigits(Tail(s), weight \div 10)

\* The longest prefix of s that is a StrDecimalLiteral ([+-] digits [. digits]),
\* as [len, val]: len = 0 when s starts with no number.  Exponents, hexadecimal
\* literals and Infinity are outside the alphabet of the inputs.
DecimalPrefix(s) ==
    LET signed == s # <<>> /\ Head(s) \in {"-", "+"}
        body == IF signed THEN Tail(s) ELSE s
        nInt == DigitRun(body)
        afterInt == SubSeq(body, nInt + 1, Len(body))
        hasDot == afterInt # <<>> /\ Head(afterInt) = "."
        nFrac == IF hasDot THEN DigitRun(Tail(afterInt)) ELSE 0
        usesDot == hasDot /\ (nInt > 0 \/ nFrac > 0)
        mag == IntDigits(SubSeq(body, 1, nInt)) * One
               + (IF usesDot THEN FracDigits(SubSeq(afterInt, 2, nFrac + 1), One) ELSE 0)
    IN  IF nInt = 0 /\ nFrac = 0
        THEN [len |-> 0, val |-> 0]
        ELSE [len |-> (IF signed THEN 1 ELSE 0) + nInt + (IF usesDot THEN 1 + nFrac ELSE 0),
              val |-> IF signed /\ Head(s) = "-" THEN 0 - mag ELSE mag]

\* StringToNumber: Number(s) of a string
StringToNumber(s) ==
    LET body == Trim(s)
        p == DecimalPrefix(body)
    IN  IF body = <<>> THEN Fix(0)
        ELSE IF p.len = Len(body) /\ p.len > 0 THEN Fix(p.val)
        ELSE NaN

\* Number(v)
ToNumber(v) ==
    CASE v.t = "number" -> v
      [] v.t = "nan" -> NaN
      [] v.t = "undefined" -> NaN
      [] v.t = "null" -> Fix(0)
      [] v.t = "boolean" -> Num(v.n)
      [] v.t = "string" -> StringToNumber(v.s)
      [] OTHER -> NaN

\* parseFloat(s) of a string: the longest numeric prefix after leading white space
ParseFloat(s) ==
    LET p == DecimalPrefix(TrimStart(s))
    IN  IF p.len = 0 THEN NaN ELSE Fix(p.val)

\* a + b and a - b on numbers
Plus(a, b) == IF a.t = "number" /\ b.t = "number" THEN Fix(a.n + b.n) ELSE NaN
Minus(a, b) == IF a.t = "number" /\ b.t = "number" THEN Fix(a.n - b.n) ELSE NaN

\* a / 1000 (metres to kilometres)
Div1000(a) == IF a.t = "number" THEN Fix(a.n \div 1000) ELSE NaN
\* a * k for an integer k
Times(a, k) == IF a.t = "number" THEN Fix(a.n * k) ELSE NaN

\* new Date(v).getTime(): the instant of a timestamp string, NaN for an absent
\* or unparseable value, 0 for null
DateTime(v) ==
    CASE v.t = "iso" -> Num(v.n)
      [] v.t = "null" -> Num(0)
      [] OTHER -> NaN

\* the property key a value is converted to when it indexes an object
ToPropertyKey(v) ==
    CASE v.t = "string" -> v.s
      [] v.t = "undefined" -> <<"u", "n", "d", "e", "f", "i", "n", "e", "d">>
      [] v.t = "null" -> <<"n", "u", "l", "l">>
      [] OTHER -> <<"?">>

----------------------------------------------------------------------------
(* getSegmentsFromData, normalizeActivityType *)

\* An array is [t |-> "array", items |-> <<...>>]; the items of a segment array
\* are references (indices into `segments`), since the code shares the segment
\* objects between the input, the returned list and the statistics calls.
Array(items) == [t |-> "array", items |-> items]
IsArray(v) == v.t = "array"
\* the root object {semanticSegments: v}
RootObject(v) == [t |-> "object", semanticSegments |-> v]

\* data.semanticSegments of any truthy root value
SemanticSegmentsOf(d) == IF d.t = "object" THEN d.semanticSegments ELSE Undef

\* the function as timeline-utils.js had it before root arrays were accepted:
\* `data.semanticSegments || []`, which throws on a null root
getSegmentsFromData_Unchecked(d) ==
    IF d.t \in {"undefined", "null"} THEN [t |-> "thrown"]
    ELSE Or(SemanticSegmentsOf(d), Array(<<>>))

\* returns an array of segment references
getSegmentsFromData(d) ==
    IF ~Truthy(d) THEN Array(<<>>)
    ELSE IF IsArray(d) THEN d
    ELSE IF IsArray(SemanticSegmentsOf(d)) THEN SemanticSegmentsOf(d) ELSE Array(<<>>)

LowerCase == <<"a", "b", "c", "d", "e", "f", "g", "h", "i", "j", "k", "l", "m",
               "n", "o", "p", "q", "r", "s", "t", "u", "v", "w", "x", "y", "z">>
UpperCase == <<"A", "B", "C", "D", "E", "F", "G", "H", "I", "J", "K", "L", "M",
               "N", "O", "P", "Q", "R", "S", "T", "U", "V", "W", "X", "Y", "Z">>

\* String.prototype.toUpperCase on one character
UpperChar(c) ==
    IF \E i \in 1..Len(LowerCase) : LowerCase[i] = c
    THEN UpperCase[CHOOSE i \in 1..Len(LowerCase) : LowerCase[i] = c]
    ELSE c

toUpperCase(s) == [i \in 1..Len(s) |-> UpperChar(s[i])]

\* s.replace(/\s+/g, '_'): every maximal run of white space becomes one underscore
RECURSIVE ReplaceSpaceRuns(_)
ReplaceSpaceRuns(s) ==
    IF s = <<>> THEN <<>>
    ELSE IF Head(s) \in WhiteSpace
         THEN <<"_">> \o ReplaceSpaceRuns(TrimStart(s))
         ELSE <<Head(s)>> \o ReplaceSpaceRuns(Tail(s))

UNKNOWN == <<"U", "N", "K", "N", "O", "W", "N">>

normalizeActivityType_CaseKept(type) ==
    IF ~Truthy(type) \/ type.t # "string" THEN UNKNOWN
    ELSE LET upper == ReplaceSpaceRuns(type.s)
         IN  IF upper = <<>> THEN UNKNOWN ELSE upper

\* returns the characters of the canonical token
normalizeActivityType(type) ==
    IF ~Truthy(type) \/ type.t # "string" THEN UNKNOWN
    ELSE LET upper == ReplaceSpaceRuns(toUpperCase(type.s))
         IN  IF upper = <<>> THEN UNKNOWN ELSE upper

----------------------------------------------------------------------------
(* parseLatLngString, getPlaceLatLngStr *)

\* the degree sign U+00B0, one character
Degree == "deg"

StripGeoPrefix_Kept(s) == s

\* s.replace(/^geo:/i, '')
StripGeoPrefix(s) ==
    IF Len(s) >= 4 /\ toUpperCase(SubSeq(s, 1, 3)) = <<"G", "E", "O">> /\ s[4] = ":"
    THEN SubSeq(s, 5, Len(s))
    ELSE s

\* s.replace(/°/g, '')
RECURSIVE RemoveDegrees(_)
RemoveDegrees(s) ==
    IF s = <<>> THEN <<>>
    ELSE IF Head(s) = Degree THEN RemoveDegrees(Tail(s))
    ELSE <<Head(s)>> \o RemoveDegrees(Tail(s))

\* s.split(','): the sequence of the parts between the commas
RECURSIVE Split(_)
Split(s) ==
    IF \A i \in 1..Len(s) : s[i] # "," THEN <<s>>
    ELSE LET k == CHOOSE i \in 1..Len(s) : s[i] = "," /\ \A j \in 1..(i - 1) : s[j] # ","
         IN  <<SubSeq(s, 1, k - 1)>> \o Split(SubSeq(s, k + 1, Len(s)))

\* the object {lat, lng}
LatLng(lat, lng) == [t |-> "object", lat |-> lat, lng |-> lng]

parseLatLngString(latLngStr) ==
    IF ~Truthy(latLngStr) \/ latLngStr.t # "string" THEN Null
    ELSE CHOOSE parsed \in
             {IF Len(parts) # 2 THEN Null
              ELSE CHOOSE latLng \in
                       {IF lat = NaN \/ lng = NaN THEN Null ELSE LatLng(lat, lng) :
                           lat \in {ParseFloat(Trim(parts[1]))},
                           lng \in {ParseFloat(Trim(parts[2]))}} : TRUE :
                 parts \in {Split(Trim(RemoveDegrees(StripGeoPrefix(latLngStr.s))))}} : TRUE

\* a placeLocation object {latLng, name}; {} is PlaceLocation(Undef, Undef)
PlaceLocation(latLng, name) == [t |-> "object", latLng |-> latLng, name |-> name]

getPlaceLatLngStr(placeLocation) ==
    IF ~Truthy(placeLocation) THEN Null
    ELSE IF placeLocation.t = "string" THEN placeLocation
    ELSE IF placeLocation.t = "object" THEN Or(placeLocation.latLng, Null)
    ELSE Null

----------------------------------------------------------------------------
(* pointInPolygon, CountryLookup, setCountryGeoJSON, getCountryFromLatLng *)

\* One edge (i, j) of the ray cast.  The coordinates are fixed-point payloads.
\* The code tests lng < (xj - xi) * (lat - yi) / ((yj - yi) || 1e-12) + xi only
\* when (yi > lat) # (yj > lat), so that yj # yi there; the comparison is
\* evaluated exactly, multiplying through by the divisor.
EdgeIntersects(lat, lng, xi, yi, xj, yj) ==
    /\ (yi > lat) # (yj > lat)
    /\ IF yj - yi > 0
       THEN (lng - xi) * (yj - yi) < (xj - xi) * (lat - yi)
       ELSE (lng - xi) * (yj - yi) > (xj - xi) * (lat - yi)

\* the loop `for (i = 0, j = length - 1; i < length; j = i++)` from index i on
\* (1-based), with the value of `inside` so far
RECURSIVE RayCast(_, _, _, _, _, _)
RayCast(lat, lng, polygon, i, j, inside) ==
    IF i > Len(polygon) THEN inside
    ELSE RayCast(lat, lng, polygon, i + 1, i,
                 IF EdgeIntersects(lat, lng, polygon[i][1], polygon[i][2],
                                   polygon[j][1], polygon[j][2])
                 THEN ~inside ELSE inside)

pointInPolygon_LatLngSwapped(lat, lng, polygon) ==
    RayCast(lng, lat, polygon, 1, Len(polygon), FALSE)

\* polygon: a ring, a sequence of <<lng, lat>> pairs
pointInPolygon(lat, lng, polygon) ==
    RayCast(lat, lng, polygon, 1, Len(polygon), FALSE)

\* A feature is [properties, geometry]: properties is Undef or an object
\* {ADMIN, name, NAME}; geometry is Undef or an object {type, coordinates} with
\* type a string ("" when absent) and coordinates Undef or the nested sequences.
Properties(admin, name, upperName) ==
    [t |-> "object", ADMIN |-> admin, name |-> name, NAME |-> upperName]
Geometry(type, coordinates) ==
    [t |-> "object", type |-> type, coordinates |-> coordinates]
Feature(properties, geometry) ==
    [t |-> "object", properties |-> properties, geometry |-> geometry]

FeatureContains_HolesSubtracted(f, lat, lng) ==
    LET geom == f.geometry
        InPolygon(rings) ==
            /\ rings # <<>>
            /\ pointInPolygon(lat, lng, rings[1])
            /\ \A r \in 2..Len(rings) : ~pointInPolygon(lat, lng, rings[r])
    IN  /\ Truthy(geom)
        /\ geom.type # ""
        /\ Truthy(geom.coordinates)
        /\ \/ geom.type = "Polygon" /\ InPolygon(geom.coordinates.items)
           \/ /\ geom.type = "MultiPolygon"
              /\ \E q \in 1..Len(geom.coordinates.items) :
                    InPolygon(geom.coordinates.items[q])

\* whether feature f's geometry contains the point (the two `some` tests)
FeatureContains(f, lat, lng) ==
    LET geom == f.geometry
    IN  /\ Truthy(geom)
        /\ geom.type # ""
        /\ Truthy(geom.coordinates)
        /\ \/ /\ geom.type = "Polygon"
              /\ \E r \in 1..Len(geom.coordinates.items) :
                    pointInPolygon(lat, lng, geom.coordinates.items[r])
           \/ /\ geom.type = "MultiPolygon"
              /\ \E q \in 1..Len(geom.coordinates.items) :
                    \E r \in 1..Len(geom.coordinates.items[q]) :
                        pointInPolygon(lat, lng, geom.coordinates.items[q][r])

FeatureName(f) ==
    LET props == Or(f.properties, Properties(Undef, Undef, Undef))
    IN  Or(Or(Or(props.ADMIN, props.name), props.NAME), Null)

RECURSIVE getCountryFrom_LastMatch(_, _, _, _)
getCountryFrom_LastMatch(features, i, lat, lng) ==
    IF i > Len(features) THEN Null
    ELSE LET later == getCountryFrom_LastMatch(features, i + 1, lat, lng)
         IN  IF later = Null /\ FeatureContains(features[i], lat, lng)
             THEN FeatureName(features[i]) ELSE later

\* CountryLookup.getCountry over the features from index i on
RECURSIVE getCountryFrom(_, _, _, _)
getCountryFrom(features, i, lat, lng) ==
    IF i > Len(features) THEN Null
    ELSE IF FeatureContains(features[i], lat, lng) THEN FeatureName(features[i])
    ELSE getCountryFrom(features, i + 1, lat, lng)

getCountry(lookup, lat, lng) == getCountryFrom(lookup.features, 1, lat, lng)

\* new CountryLookup(geojson): geojson is Undef, Null or an object {features}
CountryLookup(geojson) ==
    [t |-> "object",
     features |-> IF Truthy(geojson) /\ geojson.t = "object" /\ IsArray(geojson.features)
                  THEN geojson.features.items ELSE <<>>]

getCountryFromLatLng_Fallback(lookup, lat, lng) ==
    IF ~Truthy(lookup) \/ lookup.features = <<>> THEN Str(<<"L", "a", "n", "d">>)
    ELSE getCountry(lookup, lat.n, lng.n)

\* getCountryFromLatLng(lat, lng) under the lookup instance `lookup`; lat and lng
\* are JS numbers
getCountryFromLatLng(lookup, lat, lng) ==
    IF ~Truthy(lookup) THEN Null ELSE getCountry(lookup, lat.n, lng.n)

----------------------------------------------------------------------------
(* Segments *)

\* A segment object; every property the code reads is a field, Undef when absent.
Segment(startTime, endTime, visit, activity, timelinePath, country) ==
    [t |-> "object", startTime |-> startTime, endTime |-> endTime, visit |-> visit,
     activity |-> activity, timelinePath |-> timelinePath, country |-> country]
\* segment.visit: {probability, topCandidate}
Visit(probability, topCandidate) ==
    [t |-> "object", probability |-> probability, topCandidate |-> topCandidate]
\* visit.topCandidate: {placeId, placeID, placeLocation}
VisitCandidate(placeId, placeID, placeLocation) ==
    [t |-> "object", placeId |-> placeId, placeID |-> placeID,
     placeLocation |-> placeLocation]
\* segment.activity: {distanceMeters, topCandidate}
Activity(distanceMeters, topCandidate) ==
    [t |-> "object", distanceMeters |-> distanceMeters, topCandidate |-> topCandidate]
\* activity.topCandidate: {type}
ActivityCandidate(type) == [t |-> "object", type |-> type]

\* maps (plain objects used as dictionaries) are functions on their keys
EmptyMap == [k \in {} |-> Undef]
Put(m, k, v) == [x \in (DOMAIN m) \cup {k} |-> IF x = k THEN v ELSE m[x]]

----------------------------------------------------------------------------
(* calculateStats *)

UnknownPlace == Str(<<"U", "n", "k", "n", "o", "w", "n", " ", "P", "l", "a", "c", "e">>)

\* the `stats` object a call starts from
NewStats ==
    [t |-> "object", totalDistanceMeters |-> Num(0), totalVisits |-> 0, countries |-> {},
     transport |-> EmptyMap, visits |-> EmptyMap, visitTypes |-> EmptyMap]

\* const distanceMeters = Number(activity.distanceMeters) || 0
DistanceOf_StringsDropped(activity) ==
    IF activity.distanceMeters.t = "number" THEN activity.distanceMeters ELSE Num(0)

DistanceOf(activity) == Or(ToNumber(activity.distanceMeters), Num(0))

\* activity.topCandidate && activity.topCandidate.type
HasActivityType(activity) ==
    Truthy(activity.topCandidate) /\ Truthy(activity.topCandidate.type)

TransportUpdate_UntimedSkipped(transport, seg, distanceMeters) ==
    LET type == normalizeActivityType(seg.activity.topCandidate.type)
        old == IF type \in DOMAIN transport THEN transport[type]
               ELSE [count |-> 0, distanceMeters |-> Num(0), durationMs |-> Num(0)]
        duration == Minus(DateTime(seg.endTime), DateTime(seg.startTime))
    IN  Put(transport, type,
            [count |-> old.count + 1,
             distanceMeters |-> IF Truthy(distanceMeters)
                                THEN Plus(old.distanceMeters, distanceMeters)
                                ELSE old.distanceMeters,
             durationMs |-> IF duration = NaN THEN old.durationMs
                            ELSE Plus(old.durationMs, duration)])

\* the transport bucket update of one typed activity
TransportUpdate(transport, seg, distanceMeters) ==
    LET type == normalizeActivityType(seg.activity.topCandidate.type)
        old == IF type \in DOMAIN transport THEN transport[type]
               ELSE [count |-> 0, distanceMeters |-> Num(0), durationMs |-> Num(0)]
        duration == Minus(DateTime(seg.endTime), DateTime(seg.startTime))
    IN  Put(transport, type,
            [count |-> old.count + 1,
             distanceMeters |-> IF Truthy(distanceMeters)
                                THEN Plus(old.distanceMeters, distanceMeters)
                                ELSE old.distanceMeters,
             durationMs |-> Plus(old.durationMs, duration)])

\* the `if (segment.activity)` block
StatsActivity_TotalOverwritten(st, seg) ==
    LET distanceMeters == DistanceOf(seg.activity)
    IN  [st EXCEPT !.totalDistanceMeters = IF Truthy(distanceMeters) THEN distanceMeters ELSE @,
                   !.transport = IF HasActivityType(seg.activity)
                                 THEN TransportUpdate(@, seg, distanceMeters)
                                 ELSE @]

StatsActivity(st, seg) ==
    CHOOSE updated \in
        {[st EXCEPT !.totalDistanceMeters = IF Truthy(distanceMeters)
                                            THEN Plus(@, distanceMeters)
                                            ELSE @,
                    !.transport = IF HasActivityType(seg.activity)
                                  THEN TransportUpdate(@, seg, distanceMeters)
                                  ELSE @] :
            distanceMeters \in {DistanceOf(seg.activity)}} : TRUE

\* const placeId = visit.topCandidate.placeId || visit.topCandidate.placeID
PlaceIdOf_LowerOnly(topCandidate) == topCandidate.placeId

PlaceIdOf(topCandidate) == Or(topCandidate.placeId, topCandidate.placeID)

VisitCountry_LookupFirst(lookup, seg, latLngStr) ==
    LET cached == Or(seg.country, Null)
        parsed == parseLatLngString(latLngStr)
        found == IF Truthy(latLngStr) /\ Truthy(parsed)
                 THEN getCountryFromLatLng(lookup, parsed.lat, parsed.lng) ELSE Null
    IN  Or(found, cached)

\* the country of a visit: the one cached on the segment, else the lookup
VisitCountry(lookup, seg, latLngStr) ==
    LET cached == Or(seg.country, Null)
    IN  IF ~Truthy(cached) /\ Truthy(latLngStr)
        THEN CHOOSE country \in
                 {IF Truthy(parsed) THEN getCountryFromLatLng(lookup, parsed.lat, parsed.lng)
                  ELSE cached :
                     parsed \in {parseLatLngString(latLngStr)}} : TRUE
        ELSE cached

StatsVisitCandidate_Overwriting(lookup, st, seg) ==
    LET topCandidate == seg.visit.topCandidate
        placeLocation == Or(topCandidate.placeLocation, PlaceLocation(Undef, Undef))
        placeId == ToPropertyKey(PlaceIdOf(topCandidate))
        latLngStr == getPlaceLatLngStr(placeLocation)
        name == IF placeLocation.t = "object" /\ Truthy(placeLocation.name)
                THEN placeLocation.name ELSE UnknownPlace
        country == VisitCountry(lookup, seg, latLngStr)
        count == IF placeId \in DOMAIN st.visits THEN st.visits[placeId].count ELSE 0
    IN  [st EXCEPT !.countries = IF Truthy(country) THEN @ \cup {country} ELSE @,
                   !.visits = Put(@, placeId,
                                  [name |-> name, count |-> count + 1, latLng |-> latLngStr,
                                   country |-> Or(country, Null)])]

\* the `if (visit.topCandidate)` block
StatsVisitCandidate(lookup, st, seg) ==
    LET topCandidate == seg.visit.topCandidate
        placeLocation == Or(topCandidate.placeLocation, PlaceLocation(Undef, Undef))
        placeId == ToPropertyKey(PlaceIdOf(topCandidate))
        latLngStr == getPlaceLatLngStr(placeLocation)
        name == IF placeLocation.t = "object" /\ Truthy(placeLocation.name)
                THEN placeLocation.name ELSE UnknownPlace
    IN  CHOOSE updated \in
            {[st EXCEPT
                !.countries = IF Truthy(country) THEN @ \cup {country} ELSE @,
                !.visits = Put(@, placeId,
                               [(IF placeId \in DOMAIN st.visits THEN st.visits[placeId]
                                 ELSE [name |-> name, count |-> 0, latLng |-> latLngStr,
                                       country |-> Or(country, Null)])
                                   EXCEPT !.count = @ + 1])] :
                country \in {VisitCountry(lookup, seg, latLngStr)}} : TRUE

\* the `if (segment.visit)` block
StatsVisit(lookup, st, seg) ==
    IF Truthy(seg.visit.topCandidate)
    THEN StatsVisitCandidate(lookup, [st EXCEPT !.totalVisits = @ + 1], seg)
    ELSE [st EXCEPT !.totalVisits = @ + 1]

\* the body of segments.forEach(segment => ...)
StatsStep(lookup, st, seg) ==
    CHOOSE after \in
        {IF Truthy(seg.visit) THEN StatsVisit(lookup, afterActivity, seg) ELSE afterActivity :
            afterActivity \in {IF Truthy(seg.activity) THEN StatsActivity(st, seg) ELSE st}} :
        TRUE

\* the forEach over the segment objects segs[1..k], from NewStats
RECURSIVE StatsFold(_, _, _)
StatsFold(lookup, segs, k) ==
    IF k = 0 THEN NewStats ELSE StatsStep(lookup, StatsFold(lookup, segs, k - 1), segs[k])

calculateStats_Accumulating(lookup, segs) ==
    IF stats.t = "call" /\ stats.result.t = "object"
    THEN [StatsFold(lookup, segs, Len(segs)) EXCEPT
            !.totalVisits = @ + stats.result.totalVisits,
            !.countries = @ \cup stats.result.countries]
    ELSE StatsFold(lookup, segs, Len(segs))

\* calculateStats(segs) under the lookup instance `lookup`
calculateStats(lookup, segs) == StatsFold(lookup, segs, Len(segs))

----------------------------------------------------------------------------
(* calculateAdvancedStats *)

IN_PASSENGER_VEHICLE ==
    <<"I", "N", "_", "P", "A", "S", "S", "E", "N", "G", "E", "R", "_", "V", "E", "H", "I", "C", "L", "E">>
IN_VEHICLE ==
    <<"I", "N", "_", "V", "E", "H", "I", "C", "L", "E">>
IN_TAXI ==
    <<"I", "N", "_", "T", "A", "X", "I">>
FLYING ==
    <<"F", "L", "Y", "I", "N", "G">>
IN_BUS ==
    <<"I", "N", "_", "B", "U", "S">>
IN_TRAIN ==
    <<"I", "N", "_", "T", "R", "A", "I", "N">>
IN_SUBWAY ==
    <<"I", "N", "_", "S", "U", "B", "W", "A", "Y">>
WALKING ==
    <<"W", "A", "L", "K", "I", "N", "G">>
RUNNING ==
    <<"R", "U", "N", "N", "I", "N", "G">>
CYCLING ==
    <<"C", "Y", "C", "L", "I", "N", "G">>
MOTORCYCLING ==
    <<"M", "O", "T", "O", "R", "C", "Y", "C", "L", "I", "N", "G">>

\* CO2 emission factors (g/km)
emissionFactors ==
    (IN_PASSENGER_VEHICLE :> 150) @@
    (IN_VEHICLE :> 150) @@
    (IN_TAXI :> 150) @@
    (FLYING :> 115) @@
    (IN_BUS :> 80) @@
    (IN_TRAIN :> 40) @@
    (IN_SUBWAY :> 40) @@
    (WALKING :> 0) @@
    (RUNNING :> 0) @@
    (CYCLING :> 0) @@
    (MOTORCYCLING :> 100)

FactorOf_UnknownCharged(type) ==
    IF type \in DOMAIN emissionFactors THEN emissionFactors[type] ELSE 150

\* emissionFactors[type] || 0
FactorOf(type) == IF type \in DOMAIN emissionFactors THEN emissionFactors[type] ELSE 0

NewAdvancedStats ==
    [t |-> "object",
     eco |-> [totalCo2 |-> Num(0), breakdown |-> EmptyMap, distanceByType |-> EmptyMap],
     time |-> [moving |-> Num(0), stationary |-> Num(0), total |-> Num(0)],
     records |-> [longestDrive |-> Num(0), longestWalk |-> Num(0), maxVelocity |-> Num(0)]]

\* (map[key] || 0) + x
Accumulate(m, key, x) ==
    Put(m, key, Plus(IF key \in DOMAIN m THEN Or(m[key], Num(0)) ELSE Num(0), x))

Greater_Always(a, b) == TRUE

\* a > b on numbers (false when either is NaN)
Greater(a, b) == a.t = "number" /\ b.t = "number" /\ a.n > b.n

\* the `if (segment.activity)` block
AdvancedActivity(adv, seg, duration) ==
    LET topCandidate == seg.activity.topCandidate
        rawType == Or(IF Truthy(topCandidate) THEN topCandidate.type ELSE Undef, Str(UNKNOWN))
    IN  CHOOSE updated \in
            {LET distanceKm == Div1000(distanceMeters)
                 co2 == Times(distanceKm, FactorOf(type))
                 drive == /\ Truthy(distanceMeters)
                          /\ type \in {IN_PASSENGER_VEHICLE, IN_VEHICLE}
                          /\ Greater(distanceMeters, adv.records.longestDrive)
                 walk == /\ Truthy(distanceMeters)
                         /\ type \in {WALKING, RUNNING}
                         /\ Greater(distanceMeters, adv.records.longestWalk)
             IN  [adv EXCEPT !.time.moving = Plus(@, duration),
                             !.eco.distanceByType = Accumulate(@, type, distanceKm),
                             !.eco.totalCo2 = Plus(@, co2),
                             !.eco.breakdown = Accumulate(@, type, co2),
                             !.records.longestDrive = IF drive THEN distanceMeters ELSE @,
                             !.records.longestWalk = IF walk THEN distanceMeters ELSE @] :
                type \in {normalizeActivityType(rawType)},
                distanceMeters \in {DistanceOf(seg.activity)}} : TRUE

AdvancedStep_RestStationary(adv, seg) ==
    LET duration == Minus(DateTime(seg.endTime), DateTime(seg.startTime))
        timed == [adv EXCEPT !.time.total = Plus(@, duration)]
    IN  IF Truthy(seg.activity) THEN AdvancedActivity(timed, seg, duration)
        ELSE [timed EXCEPT !.time.stationary = Plus(@, duration)]

\* the body of segments.forEach(segment => ...)
AdvancedStep(adv, seg) ==
    LET duration == Minus(DateTime(seg.endTime), DateTime(seg.startTime))
        timed == [adv EXCEPT !.time.total = Plus(@, duration)]
    IN  IF Truthy(seg.activity) THEN AdvancedActivity(timed, seg, duration)
        ELSE IF Truthy(seg.visit) THEN [timed EXCEPT !.time.stationary = Plus(@, duration)]
        ELSE timed

RECURSIVE AdvancedFold(_, _)
AdvancedFold(segs, k) ==
    IF k = 0 THEN NewAdvancedStats ELSE AdvancedStep(AdvancedFold(segs, k - 1), segs[k])

calculateAdvancedStats(segs) == AdvancedFold(segs, Len(segs))

----------------------------------------------------------------------------
(* renderRecordBreakers of the dashboard *)

\* the UTF-16 code unit of a character of a distance string
CodeUnit(c) ==
    CASE c = " " -> 32
      [] c = "+" -> 43
      [] c = "-" -> 45
      [] c = "." -> 46
      [] IsDigit(c) -> 48 + DigitVal(c)
      [] c = "x" -> 120
      [] OTHER -> 65

\* a < b on strings: by the first code unit that differs, a prefix being less
RECURSIVE StringLess(_, _)
StringLess(a, b) ==
    IF b = <<>> THEN FALSE
    ELSE IF a = <<>> THEN TRUE
    ELSE IF Head(a) # Head(b) THEN CodeUnit(Head(a)) < CodeUnit(Head(b))
    ELSE StringLess(Tail(a), Tail(b))

\* a > b of JavaScript: two strings by code units, else as numbers
GreaterThan(a, b) ==
    IF a.t = "string" /\ b.t = "string" THEN StringLess(b.s, a.s)
    ELSE Greater(ToNumber(a), ToNumber(b))

\* { distance, date }
DatedRecord(distance, date) == [distance |-> distance, date |-> date]

\* the body of segments.forEach(segment => ...) in renderRecordBreakers
RecordBreakersStep(rec, seg) ==
    IF ~(Truthy(seg.activity) /\ Truthy(seg.activity.distanceMeters)) THEN rec
    ELSE LET topCandidate == seg.activity.topCandidate
             type == Or(IF topCandidate.t = "object" THEN topCandidate.type ELSE Undef,
                        Str(UNKNOWN))
             distance == seg.activity.distanceMeters
             date == IF Truthy(seg.startTime) THEN seg.startTime ELSE Null
             drive == /\ type \in {Str(IN_PASSENGER_VEHICLE), Str(IN_VEHICLE)}
                      /\ GreaterThan(distance, rec.longestDriveRecord.distance)
             walk == /\ type \in {Str(WALKING), Str(RUNNING)}
                     /\ GreaterThan(distance, rec.longestWalkRecord.distance)
         IN  [longestDriveRecord |-> IF drive THEN DatedRecord(distance, date)
                                     ELSE rec.longestDriveRecord,
              longestWalkRecord |-> IF walk THEN DatedRecord(distance, date)
                                    ELSE rec.longestWalkRecord]

RECURSIVE RecordBreakersFold(_, _)
RecordBreakersFold(segs, k) ==
    IF k = 0
    THEN [longestDriveRecord |-> DatedRecord(Num(0), Null),
          longestWalkRecord |-> DatedRecord(Num(0), Null)]
    ELSE RecordBreakersStep(RecordBreakersFold(segs, k - 1), segs[k])

\* renderRecordBreakers(records, segments): the two records it shows; the
\* records argument is not read
renderRecordBreakers(records, segs) == RecordBreakersFold(segs, Len(segs))

----------------------------------------------------------------------------
(* processTimelineData *)

\* new Date(startTime).getFullYear(): NaN for an unparseable timestamp
FullYear(v) ==
    LET ms == DateTime(v)
    IN  IF ms.t = "number" THEN Num(1970 + (ms.n \div One) \div YearLength) ELSE NaN

\* parseInt(v, 10): the integer prefix of a string, the integer part of a
\* non-negative number, NaN otherwise
ParseInt(v) ==
    CASE v.t = "number" /\ v.n >= 0 -> Num(v.n \div One)
      [] v.t = "string" ->
            LET body == TrimStart(v.s)
                signed == body # <<>> /\ Head(body) \in {"-", "+"}
                digits == IF signed THEN Tail(body) ELSE body
                k == DigitRun(digits)
                mag == IntDigits(SubSeq(digits, 1, k))
            IN  IF k = 0 THEN NaN
                ELSE Num(IF signed /\ Head(body) = "-" THEN 0 - mag ELSE mag)
      [] OTHER -> NaN

\* The probability filter.  A visit is included if its probability is absent or
\* null, or the threshold is 0, or the probability (a number or a numeric
\* string) parses to a number that is not below the threshold.
visitPassesProbabilityThreshold_StringsFail(visit, threshold) ==
    \/ ~Truthy(visit)
    \/ visit.probability.t \in {"undefined", "null"}
    \/ threshold = Num(0)
    \/ /\ visit.probability.t = "number"
       /\ visit.probability.n >= threshold.n

visitPassesProbabilityThreshold(visit, threshold) ==
    \/ ~Truthy(visit)
    \/ visit.probability.t \in {"undefined", "null"}
    \/ threshold = Num(0)
    \/ LET p == IF visit.probability.t = "string" THEN ParseFloat(visit.probability.s)
                ELSE ToNumber(visit.probability)
       IN  p = NaN \/ p.n >= threshold.n

\* the options object {probabilityThreshold}
Options(probabilityThreshold) ==
    [t |-> "object", probabilityThreshold |-> probabilityThreshold]

\* options.probabilityThreshold, 0 when the options or the property are absent
ThresholdOf(opts) ==
    IF Truthy(opts) /\ opts.probabilityThreshold.t = "number"
    THEN opts.probabilityThreshold ELSE Num(0)

\* whether a segment stays in the returned segment list
SegmentIncluded(seg, threshold) ==
    ~Truthy(seg.visit) \/ visitPassesProbabilityThreshold(seg.visit, threshold)

\* a LocationPoint
LocationPoint(lat, lng, startTime, endTime, name, probability, placeId, country) ==
    [lat |-> lat, lng |-> lng, startTime |-> startTime, endTime |-> endTime,
     name |-> name, probability |-> probability, placeId |-> placeId, country |-> country]

\* years.add(year) on the insertion-ordered Set
SetAdd_Appending(seq, v) == Append(seq, v)

SetAdd(seq, v) == IF \E i \in 1..Len(seq) : seq[i] = v THEN seq ELSE Append(seq, v)

\* (A value bound by `x \in {e}` below is a const of the code: e is computed
\* once, then used.)
ProcessVisit_CountryAlwaysSet(lookup, acc, ref) ==
    LET seg == acc.segments[ref]
        visit == seg.visit
        topCandidate == visit.topCandidate
        placeLocation == And(topCandidate,
                             IF Truthy(topCandidate) THEN topCandidate.placeLocation ELSE Undef)
        latLngStr == getPlaceLatLngStr(placeLocation)
        placeId == And(topCandidate,
                       IF Truthy(topCandidate) THEN PlaceIdOf(topCandidate) ELSE Undef)
        name == Or(IF Truthy(placeLocation) /\ placeLocation.t = "object"
                   THEN placeLocation.name ELSE False, Null)
        Push(parsed, country) ==
            [acc EXCEPT
                !.segments[ref].country = Or(country, Null),
                !.allLocations = Append(@,
                    LocationPoint(parsed.lat, parsed.lng, seg.startTime, seg.endTime, name,
                                  visit.probability, Or(placeId, Null), Or(country, Null)))]
    IN  CHOOSE after \in
            {IF ~Truthy(parsed) THEN acc
             ELSE CHOOSE pushed \in
                    {Push(parsed, country) :
                        country \in {getCountryFromLatLng(lookup, parsed.lat, parsed.lng)}} :
                    TRUE :
                parsed \in {parseLatLngString(latLngStr)}} : TRUE

ProcessVisit_BadPlaceThrows(lookup, acc, ref) ==
    LET seg == acc.segments[ref]
        visit == seg.visit
        topCandidate == visit.topCandidate
        placeLocation == And(topCandidate,
                             IF Truthy(topCandidate) THEN topCandidate.placeLocation ELSE Undef)
        latLngStr == getPlaceLatLngStr(placeLocation)
        placeId == And(topCandidate,
                       IF Truthy(topCandidate) THEN PlaceIdOf(topCandidate) ELSE Undef)
        name == Or(IF Truthy(placeLocation) /\ placeLocation.t = "object"
                   THEN placeLocation.name ELSE False, Null)
        Push(parsed, country) ==
            [acc EXCEPT
                !.segments[ref].country = IF Truthy(country) THEN country ELSE @,
                !.allLocations = Append(@,
                    LocationPoint(parsed.lat, parsed.lng, seg.startTime, seg.endTime, name,
                                  visit.probability, Or(placeId, Null), Or(country, Null)))]
    IN  CHOOSE after \in
            {IF ~Truthy(parsed) THEN [acc EXCEPT !.thrown = TRUE]
             ELSE CHOOSE pushed \in
                    {Push(parsed, country) :
                        country \in {getCountryFromLatLng(lookup, parsed.lat, parsed.lng)}} :
                    TRUE :
                parsed \in {parseLatLngString(latLngStr)}} : TRUE

\* the `if (segment.visit)` block of segment number ref: the country cached on
\* the segment and the LocationPoint pushed
ProcessVisit(lookup, acc, ref) ==
    LET seg == acc.segments[ref]
        visit == seg.visit
        topCandidate == visit.topCandidate
        placeLocation == And(topCandidate,
                             IF Truthy(topCandidate) THEN topCandidate.placeLocation ELSE Undef)
        latLngStr == getPlaceLatLngStr(placeLocation)
        placeId == And(topCandidate,
                       IF Truthy(topCandidate) THEN PlaceIdOf(topCandidate) ELSE Undef)
        name == Or(IF Truthy(placeLocation) /\ placeLocation.t = "object"
                   THEN placeLocation.name ELSE False, Null)
        Push(parsed, country) ==
            [acc EXCEPT
                !.segments[ref].country = IF Truthy(country) THEN country ELSE @,
                !.allLocations = Append(@,
                    LocationPoint(parsed.lat, parsed.lng, seg.startTime, seg.endTime, name,
                                  visit.probability, Or(placeId, Null), Or(country, Null)))]
    IN  CHOOSE after \in
            {IF ~Truthy(parsed) THEN acc
             ELSE CHOOSE pushed \in
                    {Push(parsed, country) :
                        country \in {getCountryFromLatLng(lookup, parsed.lat, parsed.lng)}} :
                    TRUE :
                parsed \in {parseLatLngString(latLngStr)}} : TRUE

\* a trail point {point, durationMinutesOffsetFromStartTime}
TrailPoint(point, offset) ==
    [t |-> "object", point |-> point, durationMinutesOffsetFromStartTime |-> offset]

\* one trail point of segment.timelinePath.forEach(point => ...)
ProcessTrailPoint(lookup, acc, segmentStart, point) ==
    LET pointStr == IF point.t = "object" THEN Or(point.point, point) ELSE point
        offsetMin == Or(ParseInt(IF point.t = "object"
                                 THEN point.durationMinutesOffsetFromStartTime ELSE Undef),
                        Num(0))
        ms == Plus(segmentStart, Times(offsetMin, 60 * 1000))
    IN  CHOOSE after \in
            {IF ~Truthy(parsed) THEN acc
             ELSE IF ms = NaN THEN [acc EXCEPT !.thrown = TRUE]
             ELSE [acc EXCEPT !.allLocations = Append(@,
                     LocationPoint(parsed.lat, parsed.lng, Iso(ms.n \div One),
                                   Iso(ms.n \div One), Null, Null, Null,
                                   Or(getCountryFromLatLng(lookup, parsed.lat, parsed.lng),
                                      Null)))] :
                parsed \in {parseLatLngString(IF pointStr.t = "string" THEN pointStr
                                              ELSE Null)}} : TRUE

RECURSIVE ProcessTrail(_, _, _, _, _)
ProcessTrail(lookup, acc, segmentStart, path, k) ==
    IF k = 0 THEN acc
    ELSE CHOOSE after \in
            {IF before.thrown THEN before
             ELSE ProcessTrailPoint(lookup, before, segmentStart, path[k]) :
                before \in {ProcessTrail(lookup, acc, segmentStart, path, k - 1)}} : TRUE

ProcessSegment_TrailUnlessVisit(lookup, acc, ref, threshold) ==
    LET seg == acc.segments[ref]
        withYear == IF Truthy(seg.startTime)
                    THEN [acc EXCEPT !.years = SetAdd(@, FullYear(seg.startTime))]
                    ELSE acc
        segmentStart == IF Truthy(seg.startTime) THEN DateTime(seg.startTime) ELSE Num(0)
    IN  CHOOSE after \in
            {IF Truthy(seg.visit)
             THEN (IF SegmentIncluded(seg, threshold) THEN ProcessVisit(lookup, a, ref) ELSE a)
             ELSE IF Truthy(seg.timelinePath) /\ IsArray(seg.timelinePath)
             THEN ProcessTrail(lookup, a, segmentStart, seg.timelinePath.items,
                               Len(seg.timelinePath.items))
             ELSE a :
                a \in {withYear}} : TRUE

\* the body of allSegments.forEach(segment => ...) for segment number ref
ProcessSegment(lookup, acc, ref, threshold) ==
    LET seg == acc.segments[ref]
        withYear == IF Truthy(seg.startTime)
                    THEN [acc EXCEPT !.years = SetAdd(@, FullYear(seg.startTime))]
                    ELSE acc
        segmentStart == IF Truthy(seg.startTime) THEN DateTime(seg.startTime) ELSE Num(0)
    IN  CHOOSE after \in
            {IF Truthy(seg.timelinePath) /\ IsArray(seg.timelinePath)
             THEN ProcessTrail(lookup, withVisit, segmentStart, seg.timelinePath.items,
                               Len(seg.timelinePath.items))
             ELSE withVisit :
                withVisit \in {IF Truthy(seg.visit) /\ SegmentIncluded(seg, threshold)
                               THEN ProcessVisit(lookup, a, ref) ELSE a :
                                  a \in {withYear}}} : TRUE

RECURSIVE ProcessFold(_, _, _, _, _)
ProcessFold(lookup, segs, refs, k, threshold) ==
    IF k = 0
    THEN [segments |-> segs, allLocations |-> <<>>, years |-> <<>>, thrown |-> FALSE]
    ELSE CHOOSE after \in
            {IF before.thrown THEN before
             ELSE ProcessSegment(lookup, before, refs[k], threshold) :
                before \in {ProcessFold(lookup, segs, refs, k - 1, threshold)}} : TRUE

\* the references of refs whose segment stays in the returned list, in order
RECURSIVE IncludedRefs(_, _, _)
IncludedRefs(segs, refs, threshold) ==
    IF refs = <<>> THEN <<>>
    ELSE (IF SegmentIncluded(segs[Head(refs)], threshold) THEN <<Head(refs)>> ELSE <<>>)
         \o IncludedRefs(segs, Tail(refs), threshold)

\* processTimelineData(d, opts) on the segment objects segs under the lookup
\* instance: the segment objects afterwards, and the returned
\* {allSegments, allLocations, years} (or the exception thrown: forEach of a
\* value that is no array, toISOString of an invalid date)
processTimelineData(lookup, segs, d, opts) ==
    LET allSegments == getSegmentsFromData(d)
        refs == allSegments.items
        threshold == ThresholdOf(opts)
    IN  IF ~IsArray(allSegments) THEN [segments |-> segs, result |-> [t |-> "thrown"]]
        ELSE CHOOSE returned \in
                {[segments |-> done.segments,
                  result |-> IF done.thrown THEN [t |-> "thrown"]
                             ELSE [t |-> "object",
                                   allSegments |-> IncludedRefs(segs, refs, threshold),
                                   allLocations |-> done.allLocations,
                                   years |-> done.years]] :
                    done \in {ProcessFold(lookup, segs, refs, Len(refs), threshold)}} : TRUE

----------------------------------------------------------------------------
(* The inputs the specifications draw from *)

\* all sequences over S of length at most n
RECURSIVE SeqsUpTo(_, _)
SeqsUpTo(S, n) ==
    IF n = 0 THEN {<<>>}
    ELSE LET shorter == SeqsUpTo(S, n - 1)
         IN  shorter \cup {Append(q, x) : q \in {r \in shorter : Len(r) = n - 1}, x \in S}

InBusSpaced == Str(<<"i", "n", " ", "b", "u", "s">>)
InBusUpper == Str(IN_BUS)
InBusLower == Str(<<"i", "n", "_", "b", "u", "s">>)
Walking == Str(WALKING)
Driving == Str(IN_PASSENGER_VEHICLE)

\* an activity segment
ActivitySegment(startTime, endTime, distanceMeters, topCandidate) ==
    Segment(startTime, endTime, Undef, Activity(distanceMeters, topCandidate), Undef, Undef)
\* a visit segment
VisitSegment(startTime, endTime, probability, topCandidate) ==
    Segment(startTime, endTime, Visit(probability, topCandidate), Undef, Undef, Undef)

ActivitySamples ==
    { ActivitySegment(Iso(0), Iso(2), Num(5), ActivityCandidate(InBusUpper)),
      ActivitySegment(Iso(1), Iso(2), Str(<<"7">>), ActivityCandidate(InBusSpaced)),
      ActivitySegment(Iso(1), Iso(3), Num(7), ActivityCandidate(InBusLower)),
      ActivitySegment(Iso(0), Iso(1), Str(<<" ", "1", "2", " ">>), ActivityCandidate(Walking)),
      ActivitySegment(Iso(2), Iso(3), Str(<<"4", "x">>), ActivityCandidate(Walking)),
      ActivitySegment(Iso(0), Iso(3), Num(6), ActivityCandidate(Driving)),
      ActivitySegment(Iso(0), Iso(1), Num(4), Undef),
      ActivitySegment(Iso(0), Iso(1), Num(2), ActivityCandidate(Str(<<>>))),
      ActivitySegment(Iso(1), Iso(2), Undef, ActivityCandidate(InBusUpper)),
      ActivitySegment(Iso(1), Undef, Num(1), ActivityCandidate(InBusUpper)),
      ActivitySegment(Undef, Undef, Num(0), Undef),
      \* a second driving type, spelled as on iOS, a second foot type, a bicycle
      ActivitySegment(Iso(0), Iso(2), Num(9),
                      ActivityCandidate(Str(<<"i", "n", " ", "v", "e", "h", "i", "c", "l", "e">>))),
      ActivitySegment(Iso(1), Iso(3), Num(3), ActivityCandidate(Str(RUNNING))),
      ActivitySegment(Iso(0), Iso(1), Num(8), ActivityCandidate(Str(CYCLING))),
      \* a walk whose distance is the string "7"
      ActivitySegment(Iso(2), Iso(3), Str(<<"7">>), ActivityCandidate(Walking)) }

PlaceA == Str(<<"A">>)
PlaceB == Str(<<"B">>)
Home == Str(<<"H", "o", "m", "e">>)
\* a country cached on a segment that no polygon of the lookup carries
Sea == Str(<<"S", "e", "a">>)
\* "1°, 2°" and "geo:1,2"
DegreeCoordinate == Str(<<"1", Degree, ",", " ", "2", Degree>>)
GeoCoordinate == Str(<<"g", "e", "o", ":", "1", ",", "2">>)

VisitSamples ==
    { VisitSegment(Iso(0), Iso(1), Undef, Undef),
      VisitSegment(Iso(0), Iso(2), Num(1),
                   VisitCandidate(PlaceA, Undef, PlaceLocation(DegreeCoordinate, Home))),
      VisitSegment(Iso(1), Iso(3), Str(<<"0", ".", "9">>),
                   VisitCandidate(Undef, PlaceA, GeoCoordinate)),
      VisitSegment(Iso(2), Iso(3), Undef, VisitCandidate(PlaceB, Undef, Undef)),
      VisitSegment(Iso(2), Iso(3), Undef, VisitCandidate(Str(<<>>), PlaceB, Undef)),
      VisitSegment(Iso(0), Iso(3), Undef, VisitCandidate(Undef, Undef, Undef)),
      VisitSegment(Iso(0), Iso(3), Undef,
                   VisitCandidate(Str(ToPropertyKey(Undef)), Undef, Undef)),
      Segment(Iso(1), Iso(2),
              Visit(Undef, VisitCandidate(PlaceA, Undef, PlaceLocation(DegreeCoordinate, Undef))),
              Undef, Undef, Sea) }

\* a segment that is neither a visit nor an activity
BareSegment == Segment(Iso(0), Iso(1), Undef, Undef, Undef, Undef)

StatsSamples == ActivitySamples \cup VisitSamples \cup {BareSegment}

\* the unit square [[0,0],[0,4],[4,4],[4,0],[0,0]] as [lng, lat] pairs, as a country
Square(lo, hi) ==
    <<<<lo * One, lo * One>>, <<lo * One, hi * One>>, <<hi * One, hi * One>>,
      <<hi * One, lo * One>>, <<lo * One, lo * One>>>>
Land == Str(<<"L", "a", "n", "d">>)
SampleGeoJSON ==
    [t |-> "object",
     features |-> Array(<<Feature(Properties(Land, Undef, Undef),
                                  Geometry("Polygon", Array(<<Square(0, 4)>>)))>>)]

----------------------------------------------------------------------------
(* The operations *)

Call(arg, lookup, result) == [t |-> "call", arg |-> arg, lookup |-> lookup, result |-> result]

AllRefs == [i \in 1..Len(segments) |-> i]
\* the segment objects a list of references denotes
Deref(refs) == [i \in 1..Len(refs) |-> segments[refs[i]]]

\* the segment lists a caller hands to the statistics functions: the loaded
\* list, or the list processTimelineData returned
CallableLists ==
    {AllRefs} \cup (IF processed.t = "call" /\ processed.result.t = "object"
                    THEN {processed.result.allSegments} ELSE {})

\* stats = calculateStats(segments)
CalculateStats ==
    /\ \E refs \in CallableLists :
          stats' = Call(Deref(refs), countryLookupInstance,
                        calculateStats(countryLookupInstance, Deref(refs)))
    /\ UNCHANGED <<countryLookupInstance, segments, processed, advanced, probe, dashboard>>

\* advanced = calculateAdvancedStats(segments)
CalculateAdvancedStats ==
    /\ \E refs \in CallableLists :
          advanced' = Call(Deref(refs), countryLookupInstance,
                           calculateAdvancedStats(Deref(refs)))
    /\ UNCHANGED <<countryLookupInstance, segments, processed, stats, probe, dashboard>>

\* renderRecordBreakers(advancedStats.records, statsSegments) of renderDashboard
RenderRecordBreakers ==
    /\ advanced.t = "call"
    /\ probe' = [t |-> "rendered", arg |-> advanced.arg,
                 records |-> advanced.result.records,
                 outs |-> renderRecordBreakers(advanced.result.records, advanced.arg)]
    /\ UNCHANGED <<countryLookupInstance, segments, processed, stats, advanced, dashboard>>

----------------------------------------------------------------------------
(* The statistics of an arbitrary segment list *)

InitStats ==
    /\ countryLookupInstance \in {Null, CountryLookup(SampleGeoJSON)}
    /\ segments \in SeqsUpTo(StatsSamples, MaxSegments)
    /\ processed = Undef
    /\ stats = Undef
    /\ advanced = Undef
    /\ dashboard = Undef
    /\ probe = Undef

NextStats == CalculateStats \/ CalculateAdvancedStats \/ RenderRecordBreakers

SpecStats == InitStats /\ [][NextStats]_vars

\* A caller that calls the two functions again and again, on the loaded list and
\* on the list without its last segment, keeps what each call returned, and
\* changes the objects it was handed.
MaxCalls == 3

RepeatSamples ==
    { VisitSegment(Iso(0), Iso(2), Num(1),
                   VisitCandidate(PlaceA, Undef, PlaceLocation(DegreeCoordinate, Home))),
      ActivitySegment(Iso(0), Iso(1), Str(<<" ", "1", "2", " ">>), ActivityCandidate(Walking)),
      ActivitySegment(Iso(0), Iso(3), Num(6), ActivityCandidate(Driving)) }

\* the calls made so far with what they returned, and the caller's changes to
\* what was returned, in their order
CallLog(calls) == [fn |-> "calls", calls |-> calls]

Returned(fn, call) == [fn |-> fn, call |-> call]

\* how many of the entries are calls of the two functions
CallsMade == Cardinality({i \in 1..Len(probe.calls) : probe.calls[i].fn # "change"})

\* the loaded list, and the list without its last segment
RepeatLists == {AllRefs, SubSeq(AllRefs, 1, Len(segments) - 1)}

\* const a = calculateStats(list)
RepeatCalculateStats ==
    /\ CallsMade < MaxCalls
    /\ \E refs \in RepeatLists :
          \E call \in {Call(Deref(refs), countryLookupInstance,
                            calculateStats(countryLookupInstance, Deref(refs)))} :
              /\ stats' = call
              /\ probe' = CallLog(Append(probe.calls, Returned("calculateStats", call)))
    /\ UNCHANGED <<countryLookupInstance, segments, processed, advanced, dashboard>>

\* const b = calculateAdvancedStats(list)
RepeatCalculateAdvancedStats ==
    /\ CallsMade < MaxCalls
    /\ \E refs \in RepeatLists :
          \E call \in {Call(Deref(refs), countryLookupInstance,
                            calculateAdvancedStats(Deref(refs)))} :
              /\ advanced' = call
              /\ probe' = CallLog(Append(probe.calls,
                                         Returned("calculateAdvancedStats", call)))
    /\ UNCHANGED <<countryLookupInstance, segments, processed, stats, dashboard>>

\* the caller writes into the objects the last calls returned:
\* a.countries.add('Sea'); a.visits = {}; b.eco.breakdown = {}; b.records.longestWalk = -1
ChangeReturned ==
    /\ stats' = IF stats.t = "call"
                THEN [stats EXCEPT !.result.countries = @ \cup {Sea},
                                   !.result.visits = EmptyMap]
                ELSE stats
    /\ advanced' = IF advanced.t = "call"
                   THEN [advanced EXCEPT !.result.eco.breakdown = EmptyMap,
                                         !.result.records.longestWalk = Num(0 - 1)]
                   ELSE advanced
    /\ stats' # stats \/ advanced' # advanced
    /\ probe' = CallLog(Append(probe.calls, Returned("change", Undef)))
    /\ UNCHANGED <<countryLookupInstance, segments, processed, dashboard>>

InitCalls ==
    /\ countryLookupInstance \in {Null, CountryLookup(SampleGeoJSON)}
    /\ segments \in SeqsUpTo(RepeatSamples, MaxSegments)
    /\ processed = Undef
    /\ stats = Undef
    /\ advanced = Undef
    /\ dashboard = Undef
    /\ probe = CallLog(<<>>)

NextCalls == RepeatCalculateStats \/ RepeatCalculateAdvancedStats \/ ChangeReturned

SpecCalls == InitCalls /\ [][NextCalls]_vars

----------------------------------------------------------------------------
(* Claims about calculateStats *)

\* the sum of f over the finite set S
RECURSIVE SumOf(_, _)
SumOf(f, S) ==
    IF S = {} THEN 0
    ELSE LET x == CHOOSE y \in S : TRUE IN f[x] + SumOf(f, S \ {x})

\* the activity segments and the visit segments of a list, by position
ActivitiesOf(arg) == {i \in 1..Len(arg) : arg[i].activity.t = "object"}
VisitsOf(arg) == {i \in 1..Len(arg) : arg[i].visit.t = "object"}

\* The number a distanceMeters value of the samples stands for: a JSON number is
\* itself, the numeric strings "7" and " 12 " are 7 and 12, anything else
\* (absent, "4x") counts as 0.
DistanceValue(d) ==
    CASE d.t = "number" -> d.n
      [] d = Str(<<"7">>) -> 7 * One
      [] d = Str(<<" ", "1", "2", " ">>) -> 12 * One
      [] OTHER -> 0

DistancesOf(arg) == [i \in 1..Len(arg) |-> DistanceValue(arg[i].activity.distanceMeters)]

\* C1: when every activity's distanceMeters is a number >= 0, totalDistanceMeters
\* is the exact sum of the distances of the activity segments; visits and
\* segments that are neither contribute 0.
C1_TotalDistanceIsSum ==
    (/\ stats.t = "call"
     /\ \A i \in ActivitiesOf(stats.arg) :
           /\ stats.arg[i].activity.distanceMeters.t = "number"
           /\ stats.arg[i].activity.distanceMeters.n >= 0)
    => stats.result.totalDistanceMeters
         = Fix(SumOf([i \in 1..Len(stats.arg) |-> stats.arg[i].activity.distanceMeters.n],
                     ActivitiesOf(stats.arg)))

\* two activities with positive numeric distances have been summed
C1_Witness ==
    /\ stats.t = "call"
    /\ Len(stats.arg) = 2
    /\ \A i \in 1..2 :
          /\ i \in ActivitiesOf(stats.arg)
          /\ stats.arg[i].activity.distanceMeters.t = "number"
          /\ stats.arg[i].activity.distanceMeters.n > 0
    /\ stats.result.totalDistanceMeters.n
         = stats.arg[1].activity.distanceMeters.n + stats.arg[2].activity.distanceMeters.n

\* The canonical token of the type strings of the samples, as the claim gives
\* it: "in bus", "IN_BUS" and "in_bus" are IN_BUS.
CanonicalOf(type) ==
    CASE type \in {InBusSpaced, InBusUpper, InBusLower} -> IN_BUS
      [] type = Walking -> WALKING
      [] type = Driving -> IN_PASSENGER_VEHICLE
      [] type = Str(<<"i", "n", " ", "v", "e", "h", "i", "c", "l", "e">>) -> IN_VEHICLE
      [] type = Str(<<"R", "U", "N", "N", "I", "N", "G">>) -> RUNNING
      [] type = Str(<<"C", "Y", "C", "L", "I", "N", "G">>) -> CYCLING
      [] OTHER -> UNKNOWN

\* the canonical type of the activity at position i, UNKNOWN when it has none
TypeAt(arg, i) ==
    IF arg[i].activity.topCandidate.t = "object"
    THEN CanonicalOf(arg[i].activity.topCandidate.type)
    ELSE UNKNOWN

\* the activities that carry a non-empty type
TypedActivitiesOf(arg) ==
    {i \in ActivitiesOf(arg) :
        /\ arg[i].activity.topCandidate.t = "object"
        /\ arg[i].activity.topCandidate.type.t = "string"
        /\ arg[i].activity.topCandidate.type.s # <<>>}

\* endTime - startTime of the segment at position i, in fixed-point
\* milliseconds; both timestamps present
Timed(arg, i) == arg[i].startTime.t = "iso" /\ arg[i].endTime.t = "iso"
DurationsOf(arg) ==
    [i \in 1..Len(arg) |-> IF Timed(arg, i) THEN (arg[i].endTime.n - arg[i].startTime.n) * One
                           ELSE 0]

\* the sum of the durations of the segments S: not a number as soon as one of
\* them lacks a timestamp
DurationSum(arg, S) ==
    IF \A i \in S : Timed(arg, i) THEN Fix(SumOf(DurationsOf(arg), S)) ELSE NaN

\* what C7 says of the bucket of type T, the activities of that type being S
BucketIs(result, arg, T, S) ==
    /\ T \in DOMAIN result.transport
    /\ result.transport[T].count = Cardinality(S)
    /\ result.transport[T].distanceMeters = Fix(SumOf(DistancesOf(arg), S))
    /\ result.transport[T].durationMs = DurationSum(arg, S)

\* C7: for each canonical activity type T, transport[T] has count = the number
\* of activity segments whose canonicalized type is T, distanceMeters = the sum
\* of their distances and durationMs = the sum of their endTime - startTime; an
\* activity without a type canonicalizes to UNKNOWN.
C7_Original ==
    stats.t = "call" =>
        \A T \in {TypeAt(stats.arg, i) : i \in ActivitiesOf(stats.arg)} :
            BucketIs(stats.result, stats.arg, T,
                     {i \in ActivitiesOf(stats.arg) : TypeAt(stats.arg, i) = T})

\* What calculateStats does instead: for each canonical type T of an activity
\* segment that carries a non-empty type, transport[T] has count = the number
\* of such segments of type T, distanceMeters = the sum of their distances and durationMs = the sum of
\* their endTime - startTime; case and separator variants share one bucket, and
\* transport has no other bucket.
TypedBucketsAggregate ==
    stats.t = "call" =>
        /\ DOMAIN stats.result.transport
             = {TypeAt(stats.arg, i) : i \in TypedActivitiesOf(stats.arg)}
        /\ \A T \in DOMAIN stats.result.transport :
              BucketIs(stats.result, stats.arg, T,
                       {i \in TypedActivitiesOf(stats.arg) : TypeAt(stats.arg, i) = T})

\* an activity without a type was aggregated and transport has no bucket for it
C7_Witness ==
    /\ stats.t = "call"
    /\ Len(stats.arg) = 1
    /\ stats.arg[1].activity.t = "object"
    /\ TypeAt(stats.arg, 1) = UNKNOWN
    /\ stats.arg[1] \notin {stats.arg[k] : k \in TypedActivitiesOf(stats.arg)}
    /\ DOMAIN stats.result.transport = {}

\* the sums of a field of the buckets
CountsOf(result) == [T \in DOMAIN result.transport |-> result.transport[T].count]
BucketDistancesOf(result) ==
    [T \in DOMAIN result.transport |-> result.transport[T].distanceMeters.n]

\* C8: every activity segment is counted in exactly one bucket, one without a
\* type under UNKNOWN, so the counts sum to the number of activity segments and
\* the bucket distances to totalDistanceMeters.
C8_Original ==
    stats.t = "call" =>
        /\ SumOf(CountsOf(stats.result), DOMAIN stats.result.transport)
             = Cardinality(ActivitiesOf(stats.arg))
        /\ Fix(SumOf(BucketDistancesOf(stats.result), DOMAIN stats.result.transport))
             = stats.result.totalDistanceMeters

\* What calculateStats does instead: every activity segment with a non-empty
\* type is counted in exactly one bucket and an activity without one in none: the counts sum to the number of
\* typed activity segments, and the bucket distances to totalDistanceMeters
\* less the distances of the untyped activities.
TypedActivitiesPartitioned ==
    stats.t = "call" =>
        /\ SumOf(CountsOf(stats.result), DOMAIN stats.result.transport)
             = Cardinality(TypedActivitiesOf(stats.arg))
        /\ \A i \in TypedActivitiesOf(stats.arg) :
              TypeAt(stats.arg, i) \in DOMAIN stats.result.transport
        /\ SumOf(BucketDistancesOf(stats.result), DOMAIN stats.result.transport)
             = stats.result.totalDistanceMeters.n
               - SumOf(DistancesOf(stats.arg),
                       ActivitiesOf(stats.arg) \ TypedActivitiesOf(stats.arg))

\* a typed and an untyped activity, both with a distance, were aggregated
C8_Witness ==
    /\ stats.t = "call"
    /\ Cardinality(TypedActivitiesOf(stats.arg)) = 1
    /\ Cardinality(ActivitiesOf(stats.arg)) = 2
    /\ \A i \in ActivitiesOf(stats.arg) : DistanceValue(stats.arg[i].activity.distanceMeters) > 0
    /\ SumOf(CountsOf(stats.result), DOMAIN stats.result.transport) = 1

\* the list with every activity's distanceMeters replaced by the JSON number it
\* stands for (0 when it does not parse)
AsNumbers(arg) ==
    [i \in 1..Len(arg) |->
        IF i \in ActivitiesOf(arg)
        THEN [arg[i] EXCEPT !.activity.distanceMeters = Fix(DistanceValue(@))]
        ELSE arg[i]]

\* every distance accumulator of the two results is a number
DistanceAccumulatorsNumeric(st) ==
    /\ st.totalDistanceMeters.t = "number"
    /\ \A T \in DOMAIN st.transport : st.transport[T].distanceMeters.t = "number"
AdvancedAccumulatorsNumeric(adv) ==
    /\ adv.eco.totalCo2.t = "number"
    /\ \A T \in DOMAIN adv.eco.breakdown : adv.eco.breakdown[T].t = "number"
    /\ \A T \in DOMAIN adv.eco.distanceByType : adv.eco.distanceByType[T].t = "number"
    /\ adv.records.longestDrive.t = "number"
    /\ adv.records.longestWalk.t = "number"

\* C9: a distanceMeters given as a numeric string contributes to
\* totalDistanceMeters, to the transport buckets and to the advanced metrics
\* what the corresponding JSON number would, and one that does not parse
\* contributes 0; no distance accumulator becomes a non-number.
C9_StringDistanceAsNumber ==
    /\ stats.t = "call" =>
          /\ stats.result = calculateStats(stats.lookup, AsNumbers(stats.arg))
          /\ stats.result.totalDistanceMeters
               = Fix(SumOf(DistancesOf(stats.arg), ActivitiesOf(stats.arg)))
          /\ DistanceAccumulatorsNumeric(stats.result)
    /\ advanced.t = "call" =>
          /\ advanced.result = calculateAdvancedStats(AsNumbers(advanced.arg))
          /\ AdvancedAccumulatorsNumeric(advanced.result)

\* both functions have aggregated a numeric-string distance and an unparseable one
C9_Witness ==
    /\ stats.t = "call" /\ advanced.t = "call"
    /\ stats.arg = advanced.arg
    /\ \E i, j \in ActivitiesOf(stats.arg) :
          /\ stats.arg[i].activity.distanceMeters = Str(<<"7">>)
          /\ stats.arg[j].activity.distanceMeters = Str(<<"4", "x">>)
          /\ stats.arg[i].activity.topCandidate.type = InBusSpaced
    /\ stats.result.totalDistanceMeters = Num(7)
    /\ stats.result.transport[IN_BUS].distanceMeters = Num(7)
    /\ advanced.result.eco.distanceByType[IN_BUS] = Fix(7)
    /\ advanced.result.eco.totalCo2 = Fix(7 * 80)

\* the segments whose visit has a topCandidate
CandidateVisitsOf(arg) == {i \in VisitsOf(arg) : arg[i].visit.topCandidate.t = "object"}

\* the place identifier of the visit at position i: placeId, else placeID
IdentifierAt(arg, i) ==
    LET tc == arg[i].visit.topCandidate
    IN  IF tc.placeId.t = "string" /\ tc.placeId.s # <<>> THEN tc.placeId ELSE tc.placeID

\* the visits that have a topCandidate and a place identifier
IdentifiedVisitsOf(arg) ==
    {i \in CandidateVisitsOf(arg) : IdentifierAt(arg, i).t = "string"}

VisitCountsOf(result) == [k \in DOMAIN result.visits |-> result.visits[k].count]

KeyAt(arg, i) ==
    IF IdentifierAt(arg, i).t = "string" THEN IdentifierAt(arg, i).s
    ELSE <<"u", "n", "d", "e", "f", "i", "n", "e", "d">>

NameAt(arg, i) ==
    LET pl == arg[i].visit.topCandidate.placeLocation
    IN  IF pl.t = "object" /\ pl.name.t = "string" /\ pl.name.s # <<>> THEN pl.name
        ELSE Str(<<"U", "n", "k", "n", "o", "w", "n", " ", "P", "l", "a", "c", "e">>)

\* the coordinate string of the visit at position i, null without one
CoordinateAt(arg, i) ==
    LET pl == arg[i].visit.topCandidate.placeLocation
    IN  CASE pl.t = "string" /\ pl.s # <<>> -> pl
          [] pl.t = "object" /\ pl.latLng.t = "string" /\ pl.latLng.s # <<>> -> pl.latLng
          [] OTHER -> Null

\* The country a visit of the samples resolves to: the one cached on the
\* segment; else, under a lookup that holds the sample polygon, Land for the
\* coordinates "1°, 2°" and "geo:1,2", which lie in it; else null.
ResolvedAt(call, i) ==
    CASE call.arg[i].country.t = "string" /\ call.arg[i].country.s # <<>> -> call.arg[i].country
      [] /\ call.lookup.t = "object"
         /\ call.lookup.features # <<>>
         /\ CoordinateAt(call.arg, i) \in {Str(<<"1", "deg", ",", " ", "2", "deg">>),
                                          Str(<<"g", "e", "o", ":", "1", ",", "2">>)}
         -> Str(<<"L", "a", "n", "d">>)
      [] OTHER -> Null

\* the visits with a topCandidate filed under the key k, by position
FiledUnder(arg, k) == {i \in CandidateVisitsOf(arg) : KeyAt(arg, i) = k}

Least(S) == CHOOSE i \in S : \A j \in S : i <= j
Greatest(S) == CHOOSE i \in S : \A j \in S : j <= i

\* what an aggregate carries when it describes the visit at position i
Describes(call, k, i) ==
    /\ call.result.visits[k].name = NameAt(call.arg, i)
    /\ call.result.visits[k].latLng = CoordinateAt(call.arg, i)
    /\ call.result.visits[k].country = ResolvedAt(call, i)

C12_CountriesResolved ==
    stats.t = "call" =>
        /\ stats.result.countries
             = {ResolvedAt(stats, i) : i \in CandidateVisitsOf(stats.arg)} \ {Null}
        /\ \A k \in DOMAIN stats.result.visits :
              stats.result.visits[k].country # Null
                 => stats.result.visits[k].country \in stats.result.countries

\* a visit with the cached country Sea, at a coordinate the loaded lookup places
\* in Land, and a visit without a cached country at such a coordinate
C12_Witness ==
    /\ stats.t = "call"
    /\ Len(stats.arg) = 2
    /\ stats.lookup.t = "object"
    /\ stats.lookup.features # <<>>
    /\ CandidateVisitsOf(stats.arg) = {1, 2}
    /\ stats.arg[1].country = Str(<<"S", "e", "a">>)
    /\ CoordinateAt(stats.arg, 1) # Null
    /\ stats.arg[2].country.t = "undefined"
    /\ ResolvedAt(stats, 2) = Str(<<"L", "a", "n", "d">>)
    /\ stats.result.countries = {Str(<<"S", "e", "a">>), Str(<<"L", "a", "n", "d">>)}

\* grams of CO2 per km of the canonical types of the samples; the types on
\* foot, the bicycle and UNKNOWN emit nothing
GramsPerKm(T) ==
    CASE T = <<"I", "N", "_", "B", "U", "S">> -> 80
      [] T \in {<<"I", "N", "_", "P", "A", "S", "S", "E", "N", "G", "E", "R", "_", "V", "E", "H", "I", "C", "L", "E">>,
                <<"I", "N", "_", "V", "E", "H", "I", "C", "L", "E">>} -> 150
      [] OTHER -> 0

\* the distance of the activity at position i in fixed-point kilometres
KmOf(arg) == [i \in 1..Len(arg) |-> DistanceValue(arg[i].activity.distanceMeters) \div 1000]
\* the grams of CO2 of the activity at position i
GramsOf(arg) == [i \in 1..Len(arg) |-> KmOf(arg)[i] * GramsPerKm(TypeAt(arg, i))]
\* the activities of canonical type T
OfType(arg, T) == {i \in ActivitiesOf(arg) : TypeAt(arg, i) = T}

\* C15: eco.totalCo2 is the sum over the activity segments of km times the
\* emission factor of the canonical type, the factor being 0 for walking,
\* running, cycling and every type not in the table; totalCo2 is the sum of
\* eco.breakdown over all types; eco.distanceByType[T] is the summed km of T.
C15_EcoTotals ==
    advanced.t = "call" =>
        LET arg == advanced.arg
            eco == advanced.result.eco
        IN  /\ eco.totalCo2 = Fix(SumOf(GramsOf(arg), ActivitiesOf(arg)))
            /\ eco.totalCo2 = Fix(SumOf([T \in DOMAIN eco.breakdown |-> eco.breakdown[T].n],
                                        DOMAIN eco.breakdown))
            /\ DOMAIN eco.distanceByType = {TypeAt(arg, i) : i \in ActivitiesOf(arg)}
            /\ \A T \in DOMAIN eco.distanceByType :
                  eco.distanceByType[T] = Fix(SumOf(KmOf(arg), OfType(arg, T)))
            /\ \A T \in DOMAIN eco.breakdown :
                  T \in {<<"W", "A", "L", "K", "I", "N", "G">>, <<"R", "U", "N", "N", "I", "N", "G">>,
                         <<"C", "Y", "C", "L", "I", "N", "G">>, <<"U", "N", "K", "N", "O", "W", "N">>}
                     => eco.breakdown[T] = Fix(0)

\* 5 m by bus and 4 m of no type: 0.005 km x 80 g/km = 0.4 g, the unknown type
\* adding nothing
C15_Witness ==
    /\ advanced.t = "call"
    /\ Len(advanced.arg) = 2
    /\ ActivitiesOf(advanced.arg) = {1, 2}
    /\ TypeAt(advanced.arg, 1) = <<"I", "N", "_", "B", "U", "S">>
    /\ advanced.arg[1].activity.distanceMeters = Fix(5000)
    /\ advanced.arg[2].activity.topCandidate = Undef
    /\ advanced.arg[2].activity.distanceMeters = Fix(4000)
    /\ advanced.result.eco.totalCo2 = Fix(400)
    /\ advanced.result.eco.breakdown[<<"U", "N", "K", "N", "O", "W", "N">>] = Fix(0)

\* the greatest of a set of naturals, 0 for the empty set
Maximum(S) == IF S = {} THEN 0 ELSE CHOOSE x \in S : \A y \in S : y <= x

\* the distances of the activities whose canonical type is in Ts
DistancesIn(arg, Ts) ==
    {DistancesOf(arg)[i] : i \in {j \in ActivitiesOf(arg) : TypeAt(arg, j) \in Ts}}

\* C16: records.longestDrive is the maximum single-segment distance over the
\* activities of canonical type IN_PASSENGER_VEHICLE or IN_VEHICLE and
\* records.longestWalk the maximum over WALKING or RUNNING, 0 when there is
\* none: maxima, not sums, whatever the order of the segments.
C16_Records ==
    advanced.t = "call" =>
        /\ advanced.result.records.longestDrive
             = Fix(Maximum(DistancesIn(advanced.arg,
                     {<<"I", "N", "_", "P", "A", "S", "S", "E", "N", "G", "E", "R", "_", "V", "E", "H", "I", "C", "L", "E">>,
                      <<"I", "N", "_", "V", "E", "H", "I", "C", "L", "E">>})))
        /\ advanced.result.records.longestWalk
             = Fix(Maximum(DistancesIn(advanced.arg,
                     {<<"W", "A", "L", "K", "I", "N", "G">>, <<"R", "U", "N", "N", "I", "N", "G">>})))

\* a drive of 9 m followed by one of 6 m: the longest drive is 9 m, not 6 or 15
C16_Witness ==
    /\ advanced.t = "call"
    /\ Len(advanced.arg) = 2
    /\ ActivitiesOf(advanced.arg) = {1, 2}
    /\ advanced.arg[1].activity.distanceMeters = Fix(9000)
    /\ TypeAt(advanced.arg, 1) = <<"I", "N", "_", "V", "E", "H", "I", "C", "L", "E">>
    /\ advanced.arg[2].activity.distanceMeters = Fix(6000)
    /\ TypeAt(advanced.arg, 2)
         = <<"I", "N", "_", "P", "A", "S", "S", "E", "N", "G", "E", "R", "_", "V", "E", "H", "I", "C", "L", "E">>
    /\ advanced.result.records.longestDrive = Fix(9000)
    /\ advanced.result.records.longestWalk = Fix(0)

\* C17: time.total is the sum of endTime - startTime over every segment
\* whatever its kind, time.moving that sum over the activity segments and
\* time.stationary that sum over the visit segments (each not a number as soon
\* as a summed segment lacks a timestamp); when every segment is a visit or an
\* activity, moving + stationary is total.
C17_TimeSplit ==
    advanced.t = "call" =>
        LET arg == advanced.arg
            time == advanced.result.time
        IN  /\ time.total = DurationSum(arg, 1..Len(arg))
            /\ time.moving = DurationSum(arg, ActivitiesOf(arg))
            /\ time.stationary = DurationSum(arg, VisitsOf(arg))
            /\ ActivitiesOf(arg) \cup VisitsOf(arg) = 1..Len(arg)
                 => IF time.moving.t = "number" /\ time.stationary.t = "number"
                    THEN time.total = Fix(time.moving.n + time.stationary.n)
                    ELSE time.total = NaN

\* an activity of 2 ms and a visit of 3 ms: moving 2, stationary 3, total 5
C17_Witness ==
    /\ advanced.t = "call"
    /\ Len(advanced.arg) = 2
    /\ advanced.arg[1].activity.t = "object"
    /\ advanced.arg[2].visit.t = "object"
    /\ advanced.result.time.moving = Num(2)
    /\ advanced.result.time.stationary = Num(3)
    /\ advanced.result.time.total = Num(5)

----------------------------------------------------------------------------
(* Ingestion: setCountryGeoJSON and processTimelineData *)

Tenths(k) == Fix(k * (One \div 10))

PlainCoordinate == Str(<<"1", ",", " ", "2">>)

\* Visits with the probabilities 0.3, "0.9" and none, a visit "x" without a
\* place, and an activity that carries a raw trail.
IngestSamples ==
    { VisitSegment(Iso(0), Iso(1), Tenths(3),
                   VisitCandidate(PlaceA, Undef, PlaceLocation(PlainCoordinate, Home))),
      VisitSegment(Iso(5), Iso(6), Str(<<"0", ".", "9">>),
                   VisitCandidate(Undef, PlaceB, GeoCoordinate)),
      VisitSegment(Iso(2), Iso(3), Undef,
                   VisitCandidate(PlaceA, Undef, PlaceLocation(DegreeCoordinate, Undef))),
      VisitSegment(Iso(3), Iso(4), Str(<<"x">>), Undef),
      Segment(Iso(7), Iso(8), Undef, Activity(Num(5), ActivityCandidate(InBusUpper)),
              Array(<<TrailPoint(GeoCoordinate, Str(<<"2">>)), Str(<<"g", "e", "o", ":">>)>>),
              Undef),
      \* a visit that also carries a trail: a raw point string, and a point at
      \* "9,9" one minute after the start
      Segment(Iso(4), Iso(5),
              Visit(Undef, VisitCandidate(PlaceB, Undef, PlaceLocation(PlainCoordinate, Undef))),
              Undef,
              Array(<<GeoCoordinate, TrailPoint(Str(<<"9", ",", "9">>), Num(1))>>),
              Undef),
      \* neither a visit nor an activity
      Segment(Iso(9), Iso(9), Undef, Undef, Undef, Undef),
      \* no startTime: a visit whose place "x" is no coordinate
      VisitSegment(Undef, Iso(9), Undef, VisitCandidate(PlaceA, Undef, Str(<<"x">>))) }

\* the option objects: omitted, and the thresholds 0 and 0.5
OptionSamples == {Undef, Options(Num(0)), Options(Tenths(5))}

\* the two recognised root shapes over the loaded segments
RootArray == Array(AllRefs)
RootSemantic == RootObject(Array(AllRefs))
\* roots of neither shape: null, undefined, scalars, an object without the
\* property, a semanticSegments that is no array
MalformedRoots ==
    {Null, Undef, Num(5), RootObject(Undef), RootObject(Str(<<"x">>))}

GeoJSONSamples ==
    {SampleGeoJSON, Null, Undef, [t |-> "object", features |-> Undef],
     [t |-> "object", features |-> Str(<<"x">>)]}

\* setCountryGeoJSON(geojson)
SetCountryGeoJSON ==
    /\ \E geojson \in GeoJSONSamples : countryLookupInstance' = CountryLookup(geojson)
    /\ UNCHANGED <<segments, processed, stats, advanced, probe, dashboard>>

ProcessCall(arg, opts, lookup, before, result) ==
    [t |-> "call", arg |-> arg, options |-> opts, lookup |-> lookup, before |-> before,
     result |-> result]

\* processed = processTimelineData(data, options)
ProcessTimelineData ==
    /\ \E call \in ({RootArray, RootSemantic} \X OptionSamples)
                      \cup (MalformedRoots \X {Undef}) :
          \E out \in {processTimelineData(countryLookupInstance, segments, call[1], call[2])} :
              /\ segments' = out.segments
              /\ processed' = ProcessCall(call[1], call[2], countryLookupInstance, segments,
                                          out.result)
    /\ UNCHANGED <<countryLookupInstance, stats, advanced, probe, dashboard>>

Init ==
    /\ countryLookupInstance = Null
    /\ segments \in SeqsUpTo(IngestSamples, MaxSegments)
    /\ processed = Undef
    /\ stats = Undef
    /\ advanced = Undef
    /\ dashboard = Undef
    /\ probe = Undef

Next == SetCountryGeoJSON \/ ProcessTimelineData

Spec == Init /\ [][Next]_vars

\* A page that ingests a file and computes the statistics of what it holds, in
\* any order: a visit named Home, an activity with a trail, and a visit
\* without a coordinate.
InputSamples ==
    {seg \in IngestSamples :
        \/ seg.startTime \in {Iso(0), Iso(7)}
        \/ seg.startTime = Undef}

InitInputs ==
    /\ countryLookupInstance \in {Null, CountryLookup(SampleGeoJSON)}
    /\ segments \in SeqsUpTo(InputSamples, MaxSegments)
    /\ processed = Undef
    /\ stats = Undef
    /\ advanced = Undef
    /\ dashboard = Undef
    /\ probe = Undef

NextInputs == ProcessTimelineData \/ CalculateStats \/ CalculateAdvancedStats

SpecInputs == InitInputs /\ [][NextInputs]_vars

\* the segments of a list that are a visit or an activity, in their order
Eventful(arg) ==
    LET IsEvent(seg) == seg.visit.t = "object" \/ seg.activity.t = "object"
    IN  SelectSeq(arg, IsEvent)

\* C26: in calculateStats a typed activity without startTime or endTime adds a
\* duration that is not a number, and the durationMs of its type stays not a
\* number to the end of the pass; count and distanceMeters of that type, the
\* total distance and the buckets of the other types are what they are
\* without that loss, nothing is thrown, and a segment that is neither a visit
\* nor an activity changes nothing in the result.
C26_UntimedActivity ==
    stats.t = "call" =>
        /\ stats.result.t = "object"
        /\ \A T \in DOMAIN stats.result.transport :
              LET S == {i \in TypedActivitiesOf(stats.arg) : TypeAt(stats.arg, i) = T}
                  bucket == stats.result.transport[T]
              IN  /\ bucket.count = Cardinality(S)
                  /\ bucket.distanceMeters = Fix(SumOf(DistancesOf(stats.arg), S))
                  /\ (\E i \in S : ~Timed(stats.arg, i)) => bucket.durationMs = NaN
                  /\ (\A i \in S : Timed(stats.arg, i))
                        => bucket.durationMs = Fix(SumOf(DurationsOf(stats.arg), S))
        /\ stats.result.totalDistanceMeters
             = Fix(SumOf(DistancesOf(stats.arg), ActivitiesOf(stats.arg)))
        /\ stats.result = calculateStats(stats.lookup, Eventful(stats.arg))

\* a bus ride without endTime, then a timed bus ride: the bus bucket counts
\* both and their 6 metres, and its duration is not a number
C26_Witness ==
    /\ stats.t = "call"
    /\ Len(stats.arg) = 2
    /\ ActivitiesOf(stats.arg) = {1, 2}
    /\ TypedActivitiesOf(stats.arg) = {1, 2}
    /\ stats.arg[1].startTime = Iso(1)
    /\ stats.arg[1].endTime = Undef
    /\ stats.arg[2].endTime = Iso(2)
    /\ stats.arg[2].activity.distanceMeters = Num(5)
    /\ DOMAIN stats.result.transport = {IN_BUS}
    /\ stats.result.transport[IN_BUS].count = 2
    /\ stats.result.transport[IN_BUS].distanceMeters = Num(6)
    /\ stats.result.transport[IN_BUS].durationMs = NaN
    /\ stats.result.totalDistanceMeters = Num(6)

\* C27: the longest drive and the longest walk that renderRecordBreakers
\* derives from a segment list are records.longestDrive and
\* records.longestWalk of calculateAdvancedStats on that list, also for types
\* in lower case with spaces and for distances that are numeric strings.
C27_Original ==
    probe.t = "rendered" =>
        /\ ToNumber(probe.outs.longestDriveRecord.distance) = probe.records.longestDrive
        /\ ToNumber(probe.outs.longestWalkRecord.distance) = probe.records.longestWalk

\* a drive of 9 metres typed "in vehicle" is the longest drive of
\* calculateAdvancedStats and no drive at all for renderRecordBreakers
C27_Witness ==
    /\ probe.t = "rendered"
    /\ Len(probe.arg) = 1
    /\ probe.arg[1].activity.t = "object"
    /\ probe.arg[1].activity.topCandidate.t = "object"
    /\ probe.arg[1].activity.topCandidate.type
         = Str(<<"i", "n", " ", "v", "e", "h", "i", "c", "l", "e">>)
    /\ probe.arg[1].activity.distanceMeters = Num(9)
    /\ probe.records.longestDrive = Num(9)
    /\ probe.outs.longestDriveRecord = DatedRecord(Num(0), Null)

\* walks of " 12 " and then "7" metres, both strings: the longest walk of
\* calculateAdvancedStats is 12, renderRecordBreakers compares the two strings
\* by their characters and shows 7
C27_StringsCompared ==
    /\ probe.t = "rendered"
    /\ Len(probe.arg) = 2
    /\ \A i \in 1..2 : /\ probe.arg[i].activity.t = "object"
                       /\ probe.arg[i].activity.topCandidate.t = "object"
                       /\ probe.arg[i].activity.topCandidate.type = Str(WALKING)
    /\ probe.arg[1].activity.distanceMeters = Str(<<" ", "1", "2", " ">>)
    /\ probe.arg[2].activity.distanceMeters = Str(<<"7">>)
    /\ probe.records.longestWalk = Num(12)
    /\ probe.outs.longestWalkRecord.distance = Str(<<"7">>)

----------------------------------------------------------------------------
(* Claims on processTimelineData *)

IsCall(c) == c.t = "call"

\* the root is one of the two recognised shapes
IsSegmentRoot(d) == d.t = "array" \/ (d.t = "object" /\ d.semanticSegments.t = "array")

\* the same segment array under the other root shape
OtherShape(d) == IF d.t = "array" THEN [t |-> "object", semanticSegments |-> d]
                 ELSE d.semanticSegments

\* the segment references a root carries
RefsOf(d) == IF d.t = "array" THEN d.items ELSE d.semanticSegments.items

\* the threshold a call was made with, in thousandths
ThresholdAt(opts) ==
    IF opts.t = "object" /\ opts.probabilityThreshold.t = "number"
    THEN opts.probabilityThreshold.n ELSE 0

\* what the probabilities of the samples parse to, in thousandths (-1: no number)
ProbabilityValue(p) ==
    CASE p.t = "number" -> p.n
      [] p = Str(<<"0", ".", "9">>) -> 900
      [] OTHER -> 0 - 1

\* the segment is a visit whose probability is present, parseable and below t
BelowThreshold(seg, t) ==
    /\ seg.visit.t = "object"
    /\ seg.visit.probability.t \notin {"undefined", "null"}
    /\ ProbabilityValue(seg.visit.probability) >= 0
    /\ ProbabilityValue(seg.visit.probability) < t

RECURSIVE Retained(_, _, _)
Retained(segs, refs, t) ==
    IF refs = <<>> THEN <<>>
    ELSE (IF BelowThreshold(segs[Head(refs)], t) THEN <<>> ELSE <<Head(refs)>>)
         \o Retained(segs, Tail(refs), t)

\* C2: processTimelineData called with threshold t returns the input segment
\* list without exactly the visits whose probability is present, parseable and
\* below t, in the input order, and no location carries the start time of a
\* removed visit; activities and visits without a probability stay; with t = 0
\* or no threshold the returned list is the input list.
C2_ThresholdFiltersVisits ==
    (IsCall(processed) /\ IsSegmentRoot(processed.arg)) =>
        LET refs == RefsOf(processed.arg)
            segs == processed.before
            t == ThresholdAt(processed.options)
            out == processed.result
        IN  /\ out.t = "object"
            /\ out.allSegments = Retained(segs, refs, t)
            /\ \A i \in 1..Len(refs) :
                  /\ BelowThreshold(segs[refs[i]], t) =>
                        \A k \in 1..Len(out.allLocations) :
                            out.allLocations[k].startTime # segs[refs[i]].startTime
                  /\ (\/ segs[refs[i]].activity.t = "object"
                      \/ /\ segs[refs[i]].visit.t = "object"
                         /\ segs[refs[i]].visit.probability.t = "undefined")
                     => \E k \in 1..Len(out.allSegments) : out.allSegments[k] = refs[i]
            /\ t = 0 => out.allSegments = refs

\* a call with threshold 0.5 on the 0.3 visit and the "0.9" visit kept the second
\* alone, with its one location
C2_Witness ==
    /\ IsCall(processed)
    /\ IsSegmentRoot(processed.arg)
    /\ ThresholdAt(processed.options) = 500
    /\ Len(processed.before) = 2
    /\ \A r \in 1..2 : processed.before[r].visit.t = "object"
    /\ processed.before[1].visit.probability = Tenths(3)
    /\ processed.before[2].visit.probability = Str(<<"0", ".", "9">>)
    /\ processed.result.allSegments = <<2>>
    /\ Len(processed.result.allLocations) = 1

\* C4: for every segment array S, processTimelineData({semanticSegments: S}) and
\* processTimelineData(S) return identical segments, locations and years (and
\* leave the segment objects in the same state).
C4_RootShapesAgree ==
    (IsCall(processed) /\ IsSegmentRoot(processed.arg)) =>
        LET other == processTimelineData(processed.lookup, processed.before,
                                         OtherShape(processed.arg), processed.options)
        IN  /\ processed.result = other.result
            /\ segments = other.segments

\* a bare array of two segments was processed under a loaded lookup into two
\* locations with a country
C4_Witness ==
    /\ IsCall(processed)
    /\ processed.arg.t = "array"
    /\ Len(processed.arg.items) = 2
    /\ processed.result.t = "object"
    /\ Len(processed.result.allSegments) = 2
    /\ Len(processed.result.allLocations) = 2
    /\ processed.result.allLocations[1].country.t = "string"
    /\ processed.result.years # <<>>

\* C5: when the root is neither an array nor an object with an array-valued
\* semanticSegments (null, undefined, a scalar, an object without the property,
\* a semanticSegments that is no array), processTimelineData returns empty
\* segments, locations and years and raises no exception.
C5_MalformedRootIsEmpty ==
    (IsCall(processed) /\ ~IsSegmentRoot(processed.arg)) =>
        /\ processed.result.t = "object"
        /\ processed.result.allSegments = <<>>
        /\ processed.result.allLocations = <<>>
        /\ processed.result.years = <<>>
        /\ segments = processed.before

\* null was passed as the root while segments were loaded
C5_Witness ==
    /\ IsCall(processed)
    /\ processed.arg = Null
    /\ Len(processed.before) = 2
    /\ processed.result.t = "object"
    /\ processed.result.allSegments = <<>>

\* the calendar year an instant falls in, counted from 1970
YearOf(ms) == CHOOSE y \in 1970..(1970 + ms) :
                 (y - 1970) * YearLength <= ms /\ ms < (y - 1969) * YearLength

\* the years in which a segment of the call starts
StartYears(call) ==
    {Num(YearOf(call.before[r].startTime.n)) :
        r \in {q \in 1..Len(call.before) : call.before[q].startTime.t = "iso"}}

\* C13: the years returned by processTimelineData hold each distinct calendar
\* year of a segment startTime exactly once, however many segments (visits,
\* activities or neither) start in it, and nothing for a segment without
\* startTime.
C13_YearsDistinct ==
    IsCall(processed) /\ IsSegmentRoot(processed.arg) =>
        LET years == processed.result.years
        IN  /\ {years[i] : i \in 1..Len(years)} = StartYears(processed)
            /\ \A i, j \in 1..Len(years) : years[i] = years[j] => i = j

\* two visits starting in 1970 were ingested: years is [1970]; and a segment
\* that is neither visit nor activity brought the year of its startTime while
\* one without startTime brought none
C13_Witness ==
    /\ IsCall(processed)
    /\ IsSegmentRoot(processed.arg)
    /\ Len(processed.before) = 2
    /\ \/ /\ \A r \in 1..2 : /\ processed.before[r].visit.t = "object"
                             /\ processed.before[r].startTime \in {Iso(0), Iso(2)}
          /\ processed.before[1] # processed.before[2]
          /\ processed.result.years = <<Num(1970)>>
       \/ /\ processed.before[1].startTime = Iso(9)
          /\ processed.before[1].visit = Undef
          /\ processed.before[1].activity = Undef
          /\ processed.before[2].startTime = Undef
          /\ Len(processed.result.years) = 1

\* no country boundaries are configured: setCountryGeoJSON was never called, or
\* the value it was given had no features array
Unconfigured(lookup) == lookup = Null \/ (lookup.t = "object" /\ lookup.features = <<>>)

\* no segment of the list carries a cached country
NoneCached(segs) == \A r \in 1..Len(segs) : segs[r].country = Undef

CountryAt(lookup, lat, lng) ==
    IF /\ ~Unconfigured(lookup)
       /\ 0 < lat /\ lat < 4 * One /\ 0 < lng /\ lng < 4 * One
    THEN Str(<<"L", "a", "n", "d">>) ELSE Null

\* a LocationPoint of a trail: no name, probability or place id
TrailLocation(lookup, lat, lng, ms) ==
    [lat |-> Fix(lat), lng |-> Fix(lng), startTime |-> Iso(ms), endTime |-> Iso(ms),
     name |-> Null, probability |-> Null, placeId |-> Null,
     country |-> CountryAt(lookup, lat, lng)]

\* The trail points the sample segments should bring.  The activity starting
\* at 7 carries "geo:1,2" at 2 minutes and the unparseable "geo:"; the visit
\* starting at 4 carries "geo:1,2" without an offset and "9,9" at 1 minute.
TrailOf(lookup, seg) ==
    CASE seg.timelinePath = Undef -> <<>>
      [] seg.startTime = Iso(7) -> <<TrailLocation(lookup, One, 2 * One, 7 + 2 * 60 * 1000)>>
      [] seg.startTime = Iso(4) -> <<TrailLocation(lookup, One, 2 * One, 4),
                                      TrailLocation(lookup, 9 * One, 9 * One, 4 + 60 * 1000)>>

RECURSIVE TrailsOf(_, _)
TrailsOf(lookup, segs) ==
    IF segs = <<>> THEN <<>>
    ELSE TrailOf(lookup, Head(segs)) \o TrailsOf(lookup, Tail(segs))

\* the points of a call that no visit brought (a visit's point carries the
\* visit's probability: a number, a string or undefined, never null)
TrailPointsIn(call) ==
    LET FromTrail(p) == p.probability = Null
    IN  SelectSeq(call.result.allLocations, FromTrail)

\* C23: for a segment with a timelinePath, processTimelineData emits one more
\* LocationPoint per trail point whose coordinate parses, in trail order, with
\* startTime = endTime = segment start + offset minutes, with null name,
\* probability and place id and the country the lookup gives; trail points
\* that do not parse are skipped; a segment that is also a visit emits them too.
C23_TrailPoints ==
    (IsCall(processed) /\ IsSegmentRoot(processed.arg)) =>
        /\ processed.result.t = "object"
        /\ TrailPointsIn(processed) = TrailsOf(processed.lookup, processed.before)

\* under the loaded lookup the visit with a trail brought its own point, then
\* "geo:1,2" in Land at its start and "9,9" in no country a minute later
C23_Witness ==
    /\ IsCall(processed)
    /\ IsSegmentRoot(processed.arg)
    /\ ~Unconfigured(processed.lookup)
    /\ Len(processed.before) = 1
    /\ processed.before[1].visit.t = "object"
    /\ processed.before[1].timelinePath # Undef
    /\ Len(processed.result.allLocations) = 3
    /\ processed.result.allLocations[1].placeId = Str(<<"B">>)
    /\ processed.result.allLocations[2]
         = TrailLocation(processed.lookup, One, 2 * One, 4)
    /\ processed.result.allLocations[2].country = Str(<<"L", "a", "n", "d">>)
    /\ processed.result.allLocations[3].startTime = Iso(60004)
    /\ processed.result.allLocations[3].country = Null

\* The LocationPoint the visits of the samples should bring, by their start:
\* "1, 2" named Home at place A (probability 0.3), "geo:1,2" as the place
\* itself with placeID B (probability "0.9"), "1deg, 2deg" at place A, "1, 2" at
\* place B; the visit "x" has no topCandidate and the visit without a start
\* has the place "x": neither brings a point.
VisitPointOf(lookup, seg) ==
    LET At(name, placeId) ==
            <<[lat |-> Fix(One), lng |-> Fix(2 * One), startTime |-> seg.startTime,
               endTime |-> seg.endTime, name |-> name,
               probability |-> seg.visit.probability, placeId |-> placeId,
               country |-> CountryAt(lookup, One, 2 * One)]>>
    IN  CASE seg.startTime = Iso(0) -> At(Str(<<"H", "o", "m", "e">>), Str(<<"A">>))
          [] seg.startTime = Iso(5) -> At(Null, Str(<<"B">>))
          [] seg.startTime = Iso(2) -> At(Null, Str(<<"A">>))
          [] seg.startTime = Iso(4) -> At(Null, Str(<<"B">>))
          [] OTHER -> <<>>

\* the points of the visits among refs that stay under the threshold t
RECURSIVE VisitPointsOf(_, _, _, _)
VisitPointsOf(lookup, segs, refs, t) ==
    IF refs = <<>> THEN <<>>
    ELSE (IF segs[Head(refs)].visit.t = "object" /\ ~BelowThreshold(segs[Head(refs)], t)
          THEN VisitPointOf(lookup, segs[Head(refs)]) ELSE <<>>)
         \o VisitPointsOf(lookup, segs, Tail(refs), t)

\* the points of a call that a visit brought
VisitPointsIn(call) ==
    LET FromVisit(p) == p.probability # Null
    IN  SelectSeq(call.result.allLocations, FromVisit)

\* a visit without a coordinate that parses
BadPlace(lookup, seg) == seg.visit.t = "object" /\ VisitPointOf(lookup, seg) = <<>>

\* C24: processTimelineData emits exactly one LocationPoint for every included
\* visit whose coordinate parses and none for a visit whose coordinate is absent
\* or does not parse (a visit without topCandidate included), in the input
\* order of the segments; such a visit makes the call neither throw nor drop the
\* segment from the returned list nor lose the segments after it.
C24_VisitPoints ==
    (IsCall(processed) /\ IsSegmentRoot(processed.arg)) =>
        LET refs == RefsOf(processed.arg)
            segs == processed.before
            t == ThresholdAt(processed.options)
        IN  /\ processed.result.t = "object"
            /\ VisitPointsIn(processed) = VisitPointsOf(processed.lookup, segs, refs, t)
            /\ \A i \in 1..Len(refs) :
                  (BadPlace(processed.lookup, segs[refs[i]])
                      /\ ~BelowThreshold(segs[refs[i]], t))
                  => \E k \in 1..Len(processed.result.allSegments) :
                        processed.result.allSegments[k] = refs[i]

\* the visit at the place "x" came first and the visit named Home second: both
\* are returned and the one point is Home's
C24_Witness ==
    /\ IsCall(processed)
    /\ IsSegmentRoot(processed.arg)
    /\ Len(processed.before) = 2
    /\ processed.before[1].visit.t = "object"
    /\ processed.before[1].visit.topCandidate.t = "object"
    /\ processed.before[1].visit.topCandidate.placeLocation = Str(<<"x">>)
    /\ processed.before[2].startTime = Iso(0)
    /\ processed.result.t = "object"
    /\ processed.result.allSegments = <<1, 2>>
    /\ Len(processed.result.allLocations) = 1
    /\ processed.result.allLocations[1].name = Str(<<"H", "o", "m", "e">>)
    /\ processed.result.allLocations[1].startTime = Iso(0)

ResolvesVisit(lookup, seg) ==
    /\ seg.visit.t = "object"
    /\ VisitPointOf(lookup, seg) # <<>>
    /\ VisitPointOf(lookup, seg)[1].country # Null

\* what a step may do to the segment objects
InputsKept ==
    /\ Len(segments') = Len(segments)
    /\ (stats' # stats \/ advanced' # advanced) => segments' = segments
    /\ \A r \in 1..Len(segments) :
          \/ segments'[r] = segments[r]
          \/ /\ processed' # processed
             /\ ResolvesVisit(countryLookupInstance, segments[r])
             /\ segments'[r] = [segments[r] EXCEPT
                    !.country = VisitPointOf(countryLookupInstance, segments[r])[1].country]

\* C28: calculateStats and calculateAdvancedStats leave every segment they are
\* given as it was; processTimelineData changes nothing in its input but the
\* country of visit segments whose coordinate resolved to a country; the
\* number and the order of the segments never change.
C28_InputsUnchanged == [][InputsKept]_vars

\* Home's visit and the activity with a trail were ingested under the loaded
\* lookup, then both statistics computed: the visit has its country, all else
\* is as it was loaded
C28_Witness ==
    /\ IsCall(processed)
    /\ Len(processed.before) = 2
    /\ processed.before[1].startTime = Iso(0)
    /\ processed.before[1].country = Undef
    /\ processed.before[2].startTime = Iso(7)
    /\ Len(processed.result.allLocations) = 2
    /\ segments = [processed.before EXCEPT ![1].country = Str(<<"L", "a", "n", "d">>)]
    /\ stats.t = "call"
    /\ stats.arg = segments
    /\ advanced.t = "call"
    /\ advanced.arg = segments

\* the points a call emitted for the visit segment seg
PointsOfVisit(call, seg) ==
    {p \in 1..Len(call.result.allLocations) :
        /\ call.result.allLocations[p].probability # Null
        /\ call.result.allLocations[p].startTime = seg.startTime}

\* C29: after every call of processTimelineData each visit segment that
\* produced a LocationPoint carries as its cached country the country of that
\* point (no country when the point's is null), for every sequence of
\* setCountryGeoJSON and processTimelineData calls on the same segment
\* objects, a second run under a lookup that no longer resolves the point
\* included.
C29_Original ==
    (IsCall(processed) /\ IsSegmentRoot(processed.arg) /\ processed.result.t = "object") =>
        \A r \in 1..Len(segments) :
            segments[r].visit.t = "object" =>
                \A p \in PointsOfVisit(processed, segments[r]) :
                    segments[r].country
                        = IF processed.result.allLocations[p].country = Null THEN Undef
                          ELSE processed.result.allLocations[p].country

\* Home's visit was ingested under the loaded lookup and again after
\* setCountryGeoJSON(null): the point of the second run has no country, the
\* segment still carries Land
C29_Witness ==
    /\ IsCall(processed)
    /\ IsSegmentRoot(processed.arg)
    /\ processed.lookup = CountryLookup(Null)
    /\ Len(processed.before) = 1
    /\ processed.before[1].startTime = Iso(0)
    /\ processed.before[1].country = Str(<<"L", "a", "n", "d">>)
    /\ Len(processed.result.allLocations) = 1
    /\ processed.result.allLocations[1].country = Null
    /\ segments[1].country = Str(<<"L", "a", "n", "d">>)

----------------------------------------------------------------------------
(* The dashboard of script.js: data loads, year selection, the statistics
   caches and renderDashboard *)

\* how many files the user loads
MaxLoads == 2

\* String(k) of a natural number
RECURSIVE IntString(_)
IntString(k) ==
    IF k < 10 THEN <<Digits[k + 1]>> ELSE Append(IntString(k \div 10), Digits[(k % 10) + 1])

All == <<"a", "l", "l">>

\* the page before a file is loaded
NewDashboard ==
    [allSegments |-> <<>>, selectedYear |-> Null, isDataLoaded |-> FALSE,
     cachedAllTimeStats |-> Null, cachedAllTimeAdvancedStats |-> Null,
     statsCacheByYear |-> EmptyMap,
     lastYearStats |-> Null, lastAllTimeStats |-> Null,
     lastAdvancedStats |-> Null, lastAllTimeAdvancedStats |-> Null,
     countryGeoJSONCache |-> Null,
     \* the then-callbacks of ensureD3AndGlobeLoaded not yet run (each holds the
     \* years of its load), the render timers not yet run, the files loaded
     callbacks |-> <<>>, timers |-> 0, loads |-> 0]

\* selectedYear ? parseInt(selectedYear) : null
CurrentYear(d) == IF Truthy(d.selectedYear) THEN ParseInt(d.selectedYear) ELSE Null

\* currentYear === null ? 'all' : String(currentYear)
CacheKey(currentYear) ==
    IF currentYear = Null THEN All ELSE IntString(currentYear.n \div One)

\* allSegments.filter(s => s.startTime && new Date(s.startTime).getFullYear() === currentYear)
FilterByYear(segs, refs, currentYear) ==
    LET InYear(r) == Truthy(segs[r].startTime) /\ FullYear(segs[r].startTime) = currentYear
    IN  SelectSeq(refs, InYear)

\* the segments the statistics of the selection are computed from
StatsSegments(segs, d) ==
    CHOOSE statsSegments \in
        {IF currentYear # Null THEN FilterByYear(segs, d.allSegments, currentYear)
         ELSE d.allSegments :
            currentYear \in {CurrentYear(d)}} : TRUE

\* the segment objects of a list of references into segs
RECURSIVE Objects(_, _)
Objects(segs, refs) ==
    IF refs = <<>> THEN <<>> ELSE <<segs[Head(refs)]>> \o Objects(segs, Tail(refs))

\* { stats, advancedStats, statsSegments } computed for the cache
ComputedEntry(lookup, segs, statsSegments) ==
    CHOOSE computed \in
        {[stats |-> calculateStats(lookup, objects),
          advancedStats |-> calculateAdvancedStats(objects),
          statsSegments |-> statsSegments] :
             objects \in {Objects(segs, statsSegments)}} : TRUE

\* renderDashboard(): the statistics of the selection from the cache or
\* computed and cached, the all-time statistics from their cache
renderDashboard(lookup, segs, d) ==
    CHOOSE rendered \in
        {[d EXCEPT
            !.statsCacheByYear = Put(@, CacheKey(CurrentYear(d)), entry),
            !.lastYearStats = entry.stats,
            !.lastAdvancedStats = entry.advancedStats,
            !.lastAllTimeStats =
                IF d.cachedAllTimeStats # Null THEN d.cachedAllTimeStats
                ELSE calculateStats(lookup, all),
            !.lastAllTimeAdvancedStats =
                IF d.cachedAllTimeAdvancedStats # Null THEN d.cachedAllTimeAdvancedStats
                ELSE calculateAdvancedStats(all)] :
           entry \in {IF CacheKey(CurrentYear(d)) \in DOMAIN d.statsCacheByYear
                      THEN d.statsCacheByYear[CacheKey(CurrentYear(d))]
                      ELSE ComputedEntry(lookup, segs, StatsSegments(segs, d))},
           all \in {Objects(segs, d.allSegments)}} : TRUE

\* what both load functions do before they wait for the globe: take the
\* processed list, fill the all-time caches, clear the per-year cache
DataLoaded(lookup, segs, d, result) ==
    CHOOSE loaded \in
        {[d EXCEPT
            !.allSegments = result.allSegments,
            !.isDataLoaded = TRUE,
            !.cachedAllTimeStats = calculateStats(lookup, all),
            !.cachedAllTimeAdvancedStats = calculateAdvancedStats(all),
            !.statsCacheByYear = EmptyMap,
            !.callbacks = Append(@, result.years),
            !.loads = @ + 1] :
           all \in {Objects(segs, result.allSegments)}} : TRUE

\* the files: visits in 1970 and in 1971, and another visit in 1970
DataSets ==
    { <<CHOOSE seg \in IngestSamples : seg.startTime = Iso(0),
        CHOOSE seg \in IngestSamples : seg.startTime = Iso(5)>>,
      <<CHOOSE seg \in IngestSamples : seg.startTime = Iso(2)>> }

\* JSON.parse of a file: a root array of its segments
RootOf(data) == Array([i \in 1..Len(data) |-> i])

\* loadCountryGeoJSON() gets its GeoJSON and configures the lookup
LoadCountryGeoJSON ==
    /\ dashboard.countryGeoJSONCache = Null
    /\ countryLookupInstance' = CountryLookup(SampleGeoJSON)
    /\ dashboard' = [dashboard EXCEPT !.countryGeoJSONCache = SampleGeoJSON]
    /\ UNCHANGED <<segments, processed, stats, advanced, probe>>

\* processAndRenderData(json) up to ensureD3AndGlobeLoaded()
ProcessAndRenderData ==
    /\ dashboard.loads < MaxLoads
    /\ \E data \in DataSets :
          \E out \in {processTimelineData(countryLookupInstance, data, RootOf(data),
                                          Options(Num(0)))} :
              /\ segments' = out.segments
              /\ dashboard' = DataLoaded(countryLookupInstance, out.segments, dashboard,
                                         out.result)
    /\ UNCHANGED <<countryLookupInstance, processed, stats, advanced, probe>>

\* worker.onmessage: applyProcessedDataFromWorker(payload) up to
\* ensureD3AndGlobeLoaded(); the worker processed the file under the GeoJSON it
\* was posted, the one cached by then or none
ApplyProcessedDataFromWorker ==
    /\ dashboard.loads < MaxLoads
    /\ \E data \in DataSets, countryGeoJSON \in {Null, dashboard.countryGeoJSONCache} :
          \E out \in {processTimelineData(IF Truthy(countryGeoJSON)
                                          THEN CountryLookup(countryGeoJSON) ELSE Null,
                                          data, RootOf(data), Options(Num(0)))} :
              /\ segments' = out.segments
              /\ dashboard' = DataLoaded(countryLookupInstance, out.segments, dashboard,
                                         out.result)
    /\ UNCHANGED <<countryLookupInstance, processed, stats, advanced, probe>>

\* the latest of the years, as the string selectedYear holds
LatestYear(years) ==
    Str(IntString((CHOOSE y \in {years[i] : i \in 1..Len(years)} :
                      \A i \in 1..Len(years) : years[i].n <= y.n).n \div One))

\* the then-callback of a load: select the latest year and renderDashboard()
GlobeLoaded ==
    /\ dashboard.callbacks # <<>>
    /\ \E years \in {Head(dashboard.callbacks)} :
          \E selected \in {[dashboard EXCEPT
                                !.callbacks = Tail(@),
                                !.selectedYear = IF years # <<>> THEN LatestYear(years)
                                                 ELSE @]} :
              dashboard' = renderDashboard(countryLookupInstance, segments, selected)
    /\ UNCHANGED <<countryLookupInstance, segments, processed, stats, advanced, probe>>

\* the years the selector offers, and '' for all years
YearChoices ==
    {Null} \cup {Str(IntString(1970 + k)) : k \in 0..1}

\* onYearFilterChange(event): the selection is taken, the render deferred
OnYearFilterChange ==
    /\ dashboard.isDataLoaded
    /\ dashboard.timers = 0
    /\ \E value \in YearChoices :
          dashboard' = [dashboard EXCEPT !.selectedYear = value, !.timers = 1]
    /\ UNCHANGED <<countryLookupInstance, segments, processed, stats, advanced, probe>>

\* setTimeout(() => { renderDashboard(); ... }, 0) fires
RenderTimer ==
    /\ dashboard.timers > 0
    /\ \E fired \in {[dashboard EXCEPT !.timers = @ - 1]} :
          dashboard' = renderDashboard(countryLookupInstance, segments, fired)
    /\ UNCHANGED <<countryLookupInstance, segments, processed, stats, advanced, probe>>

InitDashboard ==
    /\ countryLookupInstance = Null
    /\ segments = <<>>
    /\ processed = Undef
    /\ stats = Undef
    /\ advanced = Undef
    /\ probe = Undef
    /\ dashboard = NewDashboard

NextDashboard ==
    \/ LoadCountryGeoJSON
    \/ ProcessAndRenderData
    \/ ApplyProcessedDataFromWorker
    \/ GlobeLoaded
    \/ OnYearFilterChange
    \/ RenderTimer

SpecDashboard == InitDashboard /\ [][NextDashboard]_vars

\* renderDashboard ran in this step
Rendered ==
    \/ Len(dashboard'.callbacks) < Len(dashboard.callbacks)
    \/ dashboard'.timers < dashboard.timers

\* what it showed is what the two functions give now, on the loaded segments
\* of the selection under the configured lookup
ShowsCurrent ==
    /\ dashboard'.lastYearStats
         = calculateStats(countryLookupInstance',
                          Objects(segments', StatsSegments(segments', dashboard')))
    /\ dashboard'.lastAdvancedStats
         = calculateAdvancedStats(Objects(segments', StatsSegments(segments', dashboard')))

\* C30: whenever renderDashboard runs, the statistics it shows for the
\* selected year (or for all years) are calculateStats and
\* calculateAdvancedStats of the currently loaded segments of that year under
\* the currently configured lookup, in every interleaving of data loads, year
\* selections and the completion of loadCountryGeoJSON.
C30_Original == [][Rendered => ShowsCurrent]_vars

\* 1971 was rendered before the boundaries arrived and 1970 after; back on
\* 1971, the page shows the cached statistics without a country while
\* calculateStats now finds Land
C30_Witness ==
    /\ dashboard.isDataLoaded
    /\ dashboard.callbacks = <<>>
    /\ dashboard.timers = 0
    /\ countryLookupInstance = CountryLookup(SampleGeoJSON)
    /\ dashboard.loads = 1
    /\ dashboard.selectedYear = Str(IntString(1971))
    /\ DOMAIN dashboard.statsCacheByYear = {IntString(1970), IntString(1971)}
    /\ dashboard.statsCacheByYear[IntString(1970)].stats.countries
         = {Str(<<"L", "a", "n", "d">>)}
    /\ dashboard.lastYearStats = dashboard.statsCacheByYear[IntString(1971)].stats
    /\ dashboard.lastYearStats.countries = {}
    /\ calculateStats(countryLookupInstance,
                      Objects(segments, StatsSegments(segments, dashboard))).countries
         = {Str(<<"L", "a", "n", "d">>)}

----------------------------------------------------------------------------
(* The helpers on their own: normalizeActivityType and
   visitPassesProbabilityThreshold applied to drawn inputs *)

\* the characters type strings are drawn from: a letter in both cases, the
\* separators, white space
TypeAlphabet == {"b", "B", " ", "\t", "_"}

TypeSamples ==
    {Str(chars) : chars \in SeqsUpTo(TypeAlphabet, MaxTypeLen)}
        \cup {InBusSpaced, InBusUpper, InBusLower, Walking}
        \cup {Undef, Null, Num(5), Num(0), True, ActivityCandidate(Walking)}

ProbabilitySamples ==
    {Undef, Null, Num(0), Tenths(3), Tenths(5), Tenths(9), Str(<<"0", ".", "9">>),
     Str(<<"0", ".", "2">>), Str(<<"x">>)}

VisitArguments == {Null, Undef} \cup {Visit(p, Undef) : p \in ProbabilitySamples}

ThresholdSamples == {Num(0), Tenths(5), Num(1)}

NormalizeProbe(arg, outs) == [fn |-> "normalizeActivityType", arg |-> arg, outs |-> outs]

PassesProbe(visit, threshold, outs) ==
    [fn |-> "visitPassesProbabilityThreshold", arg |-> visit, threshold |-> threshold,
     outs |-> outs]

\* normalizeActivityType(type), then normalizeActivityType of what it returned
NormalizeActivityType ==
    /\ probe.fn = "normalizeActivityType"
    /\ Len(probe.outs) < MaxApplications
    /\ probe' = NormalizeProbe(probe.arg,
                   Append(probe.outs,
                          normalizeActivityType(IF probe.outs = <<>> THEN probe.arg
                                                ELSE Str(probe.outs[Len(probe.outs)]))))
    /\ UNCHANGED <<countryLookupInstance, segments, processed, stats, advanced, dashboard>>

\* visitPassesProbabilityThreshold(visit, threshold)
VisitPassesProbabilityThreshold ==
    /\ probe.fn = "visitPassesProbabilityThreshold"
    /\ probe.outs = <<>>
    /\ probe' = PassesProbe(probe.arg, probe.threshold,
                            <<visitPassesProbabilityThreshold(probe.arg, probe.threshold)>>)
    /\ UNCHANGED <<countryLookupInstance, segments, processed, stats, advanced, dashboard>>

\* a helper applied to arg, and what it returned
HelperProbe(fn, arg, outs) == [fn |-> fn, arg |-> arg, outs |-> outs]

\* Coordinate fields: every string up to MaxTypeLen over a digit, the comma,
\* white space, a letter and the degree sign; the documented forms with
\* fractions and signs; three components; values that are no string.
CoordinateSamples ==
    {Str(chars) : chars \in SeqsUpTo({"1", ",", " ", "x", Degree}, MaxTypeLen)}
        \cup {DegreeCoordinate, PlainCoordinate, GeoCoordinate,
              Str(<<"1", ".", "5", Degree, ",", " ", "2", ".", "2", "5", Degree>>),
              Str(<<"G", "E", "O", ":", "-", "1", ".", "5", ",", "2", ".", "2", "5">>),
              Str(<<"1", ",", "2", ",", "3">>),
              Str(<<"1", "x", ",", " ", "2">>)}
        \cup {Undef, Null, Num(5), Num(0), True, PlaceLocation(PlainCoordinate, Undef)}

\* parseLatLngString(latLngStr)
ParseLatLngString ==
    /\ probe.fn = "parseLatLngString"
    /\ probe.outs = <<>>
    /\ probe' = HelperProbe(probe.fn, probe.arg, <<parseLatLngString(probe.arg)>>)
    /\ UNCHANGED <<countryLookupInstance, segments, processed, stats, advanced, dashboard>>

\* Country features over squares: Land on [0,4], Isle on [3,6] (overlapping
\* Land), Atoll with a second ring inside its first, Twin with two rings apart,
\* Archipelago as a MultiPolygon of three squares, Void without geometry.
FeatureSamples ==
    { Feature(Properties(Land, Undef, Undef), Geometry("Polygon", Array(<<Square(0, 4)>>))),
      Feature(Properties(Undef, Str(<<"I", "s", "l", "e">>), Undef),
              Geometry("Polygon", Array(<<Square(3, 6)>>))),
      Feature(Properties(Undef, Undef, Str(<<"A", "t", "o", "l", "l">>)),
              Geometry("Polygon", Array(<<Square(0, 4), Square(1, 2)>>))),
      Feature(Properties(Str(<<"T", "w", "i", "n">>), Undef, Undef),
              Geometry("Polygon", Array(<<Square(0, 1), Square(5, 6)>>))),
      Feature(Properties(Str(<<"A", "r", "c", "h">>), Undef, Undef),
              Geometry("MultiPolygon",
                       Array(<<<<Square(0, 1)>>, <<Square(3, 4), Square(5, 6)>>>>))),
      Feature(Properties(Str(<<"V", "o", "i", "d">>), Undef, Undef), Undef) }

\* new CountryLookup({features}).getCountry(lat, lng)
GetCountry ==
    /\ probe.fn = "getCountry"
    /\ probe.outs = <<>>
    /\ probe' = HelperProbe(probe.fn, probe.arg,
                   <<getCountry(CountryLookup([t |-> "object",
                                               features |-> Array(probe.arg.features)]),
                                probe.arg.lat, probe.arg.lng)>>)
    /\ UNCHANGED <<countryLookupInstance, segments, processed, stats, advanced, dashboard>>

\* The rectangle lng in [0,2], lat in [0,1] as a closed ring of [lng, lat]
\* pairs, started at each of its corners and wound in both directions.
RectangleRings ==
    LET corners == <<<<0, 0>>, <<0, One>>, <<2 * One, One>>, <<2 * One, 0>>>>
        From(k) == [i \in 1..5 |-> corners[((k + i - 2) % 4) + 1]]
        Reversed(ring) == [i \in 1..5 |-> ring[6 - i]]
    IN  {From(k) : k \in 1..4} \cup {Reversed(From(k)) : k \in 1..4}

\* pointInPolygon(lat, lng, polygon)
PointInPolygon ==
    /\ probe.fn = "pointInPolygon"
    /\ probe.outs = <<>>
    /\ probe' = HelperProbe(probe.fn, probe.arg,
                   <<pointInPolygon(probe.arg.lat, probe.arg.lng, probe.arg.polygon)>>)
    /\ UNCHANGED <<countryLookupInstance, segments, processed, stats, advanced, dashboard>>

\* Rings for the loop of pointInPolygon: the rectangles (horizontal edges), no
\* vertex, one vertex, a triangle with slanted edges, a ring flattened onto one
\* latitude.
RingSamples ==
    RectangleRings
        \cup {<<>>,
              <<<<0, 0>>>>,
              <<<<0, 0>>, <<2 * One, 0>>, <<One, One>>, <<0, 0>>>>,
              <<<<0, One>>, <<One, One>>, <<2 * One, One>>, <<0, One>>>>}

RayCastEdge_Unguarded ==
    /\ probe.fn = "rayCast"
    /\ probe.outs = <<>>
    /\ probe.i <= Len(probe.arg.polygon)
    /\ LET polygon == probe.arg.polygon
           yi == polygon[probe.i][2]
           yj == polygon[probe.j][2]
       IN  probe' = [probe EXCEPT !.edges = Append(@, <<probe.i, probe.j>>),
                                  !.divisors = Append(@, yj - yi),
                                  !.j = probe.i,
                                  !.i = @ + 1]
    /\ UNCHANGED <<countryLookupInstance, segments, processed, stats, advanced, dashboard>>

\* One iteration of `for (i = 0, j = length - 1; i < length; j = i++)`, indices
\* from 1: the edge (i, j) is visited; `&&` evaluates the division, by
\* (yj - yi) || 1e-12, only when the latitudes of the edge straddle the point.
RayCastEdge ==
    /\ probe.fn = "rayCast"
    /\ probe.outs = <<>>
    /\ probe.i <= Len(probe.arg.polygon)
    /\ LET polygon == probe.arg.polygon
           lat == probe.arg.lat
           xi == polygon[probe.i][1]
           yi == polygon[probe.i][2]
           xj == polygon[probe.j][1]
           yj == polygon[probe.j][2]
           intersect == EdgeIntersects(lat, probe.arg.lng, xi, yi, xj, yj)
       IN  probe' = [probe EXCEPT !.inside = IF intersect THEN ~@ ELSE @,
                                  !.edges = Append(@, <<probe.i, probe.j>>),
                                  !.divisors = IF (yi > lat) # (yj > lat)
                                               THEN Append(@, yj - yi) ELSE @,
                                  !.j = probe.i,
                                  !.i = @ + 1]
    /\ UNCHANGED <<countryLookupInstance, segments, processed, stats, advanced, dashboard>>

\* the loop condition fails: return inside
RayCastReturn ==
    /\ probe.fn = "rayCast"
    /\ probe.outs = <<>>
    /\ probe.i > Len(probe.arg.polygon)
    /\ probe' = [probe EXCEPT !.outs = <<probe.inside>>]
    /\ UNCHANGED <<countryLookupInstance, segments, processed, stats, advanced, dashboard>>

InitHelpers ==
    /\ countryLookupInstance = Null
    /\ segments = <<>>
    /\ processed = Undef
    /\ stats = Undef
    /\ advanced = Undef
    /\ dashboard = Undef
    /\ probe \in {NormalizeProbe(type, <<>>) : type \in TypeSamples}
                 \cup {PassesProbe(visit, threshold, <<>>) :
                          visit \in VisitArguments, threshold \in ThresholdSamples}
                 \cup {HelperProbe("parseLatLngString", latLngStr, <<>>) :
                          latLngStr \in CoordinateSamples}
                 \cup {HelperProbe("getCountry",
                                   [features |-> features, lat |-> lat, lng |-> lng], <<>>) :
                          features \in SeqsUpTo(FeatureSamples, MaxFeatures),
                          lat \in {k * One + One \div 2 : k \in {0, 1, 3, 5}},
                          lng \in {k * One + One \div 2 : k \in {0, 1, 3, 5}}}
                 \cup {HelperProbe("pointInPolygon",
                                   [lat |-> lat, lng |-> lng, polygon |-> polygon], <<>>) :
                          lat \in {k * (One \div 2) : k \in (0 - 1)..3},
                          lng \in {k * (One \div 2) : k \in (0 - 1)..5},
                          polygon \in RectangleRings}

NextHelpers ==
    \/ NormalizeActivityType
    \/ VisitPassesProbabilityThreshold
    \/ ParseLatLngString
    \/ GetCountry
    \/ PointInPolygon

SpecHelpers == InitHelpers /\ [][NextHelpers]_vars

\* pointInPolygon(lat, lng, polygon) entered: let inside = false, i = 0,
\* j = polygon.length - 1
InitRayCast ==
    /\ countryLookupInstance = Null
    /\ segments = <<>>
    /\ processed = Undef
    /\ stats = Undef
    /\ advanced = Undef
    /\ dashboard = Undef
    /\ probe \in {[fn |-> "rayCast",
                    arg |-> [lat |-> lat, lng |-> lng, polygon |-> polygon],
                    i |-> 1, j |-> Len(polygon), inside |-> FALSE,
                    edges |-> <<>>, divisors |-> <<>>, outs |-> <<>>] :
                      lat \in {k * (One \div 2) : k \in (0 - 1)..3},
                      lng \in {k * (One \div 2) : k \in (0 - 1)..5},
                      polygon \in RingSamples}

NextRayCast == RayCastEdge \/ RayCastReturn

\* the loop is synchronous code: once entered it runs on
SpecRayCast == InitRayCast /\ [][NextRayCast]_vars /\ WF_vars(NextRayCast)

\* C3: visitPassesProbabilityThreshold(visit, t) is true if the visit is null,
\* or its probability is absent or null, or t is 0, or the probability (a number
\* or a numeric string) parses to a value >= t; it is false exactly when a
\* present probability parses to a value below a non-zero t.
C3_PassesThreshold ==
    (probe.fn = "visitPassesProbabilityThreshold" /\ probe.outs # <<>>) =>
        LET visit == probe.arg
            t == probe.threshold.n
            value == CASE visit.probability.t = "number" -> visit.probability.n
                       [] visit.probability = Str(<<"0", ".", "9">>) -> 900
                       [] visit.probability = Str(<<"0", ".", "2">>) -> 200
                       [] OTHER -> 0 - 1
            below == /\ visit.t = "object"
                     /\ visit.probability.t \notin {"undefined", "null"}
                     /\ value >= 0
                     /\ t # 0
                     /\ value < t
        IN  probe.outs[1] = ~below

\* the string "0.9" passed the threshold 0.5
C3_Witness ==
    /\ probe.fn = "visitPassesProbabilityThreshold"
    /\ probe.arg = Visit(Str(<<"0", ".", "9">>), Undef)
    /\ probe.threshold = Tenths(5)
    /\ probe.outs = <<TRUE>>

\* C6: normalizeActivityType is idempotent; "in bus", "IN_BUS" and "in_bus" all
\* become IN_BUS; an absent, empty or non-string type becomes UNKNOWN.
C6_NormalizeIdempotent ==
    probe.fn = "normalizeActivityType" =>
        /\ Len(probe.outs) >= 2 => probe.outs[2] = probe.outs[1]
        /\ (/\ probe.outs # <<>>
            /\ probe.arg \in {Str(<<"i", "n", " ", "b", "u", "s">>),
                              Str(<<"I", "N", "_", "B", "U", "S">>),
                              Str(<<"i", "n", "_", "b", "u", "s">>)})
           => probe.outs[1] = <<"I", "N", "_", "B", "U", "S">>
        /\ (probe.outs # <<>> /\ (probe.arg.t # "string" \/ probe.arg.s = <<>>))
           => probe.outs[1] = <<"U", "N", "K", "N", "O", "W", "N">>

\* "in bus" became IN_BUS, and IN_BUS stayed IN_BUS when normalized again
C6_Witness ==
    /\ probe.fn = "normalizeActivityType"
    /\ probe.arg = Str(<<"i", "n", " ", "b", "u", "s">>)
    /\ probe.outs = <<<<"I", "N", "_", "B", "U", "S">>, <<"I", "N", "_", "B", "U", "S">>>>

\* the characters of a coordinate string after its geo: prefix
AfterScheme(s) ==
    IF /\ Len(s) >= 4
       /\ s[1] \in {"g", "G"} /\ s[2] \in {"e", "E"} /\ s[3] \in {"o", "O"} /\ s[4] = ":"
    THEN [i \in 1..(Len(s) - 4) |-> s[i + 4]]
    ELSE s

\* the positions of the commas of s
CommasOf(s) == {i \in 1..Len(s) : s[i] = ","}

\* the component of s between the positions a and b starts a number: its first
\* character that is neither white space nor a degree sign is a digit, or a
\* sign or point followed by a digit
StartsNumber(s, a, b) ==
    \E i \in (a + 1)..(b - 1) :
        /\ \A j \in (a + 1)..(i - 1) : s[j] \in {" ", "\t", "\n", "deg"}
        /\ \/ s[i] \in {"0", "1", "2", "3", "4", "5", "6", "7", "8", "9"}
           \/ /\ s[i] \in {"-", "+", "."}
              /\ i + 1 < b
              /\ s[i + 1] \in {"0", "1", "2", "3", "4", "5", "6", "7", "8", "9"}

WithinBox(ring, lat, lng) ==
    /\ \E v \in 1..Len(ring) : ring[v][1] < lng
    /\ \E v \in 1..Len(ring) : ring[v][1] > lng
    /\ \E v \in 1..Len(ring) : ring[v][2] < lat
    /\ \E v \in 1..Len(ring) : ring[v][2] > lat

\* the rings of a feature, whatever their nesting; none without a geometry
RingsOf(f) ==
    IF f.geometry.t # "object" THEN {}
    ELSE IF f.geometry.type = "Polygon"
    THEN {f.geometry.coordinates.items[r] : r \in 1..Len(f.geometry.coordinates.items)}
    ELSE UNION {{f.geometry.coordinates.items[q][r] :
                    r \in 1..Len(f.geometry.coordinates.items[q])} :
                  q \in 1..Len(f.geometry.coordinates.items)}

\* the name a feature of the samples carries under ADMIN, name or NAME
NameOf(f) ==
    CHOOSE n \in {f.properties.ADMIN, f.properties.name, f.properties.NAME} : n.t = "string"

\* the positions of the features with a ring around the point
Covering(features, lat, lng) ==
    {i \in 1..Len(features) : \E ring \in RingsOf(features[i]) : WithinBox(ring, lat, lng)}

\* C18: getCountry scans the features in list order and returns the name of the
\* first feature whose geometry contains the point, also when a later feature
\* contains it too; it returns null when no feature contains the point.
C18_FirstFeatureWins ==
    (probe.fn = "getCountry" /\ probe.outs # <<>>) =>
        LET covering == Covering(probe.arg.features, probe.arg.lat, probe.arg.lng)
        IN  probe.outs[1] = IF covering = {} THEN Null
                            ELSE NameOf(probe.arg.features[Least(covering)])

\* (3.5, 3.5) lies in Isle and in Land: the lookup [Isle, Land] answered Isle
C18_Witness ==
    /\ probe.fn = "getCountry"
    /\ Len(probe.arg.features) = 2
    /\ NameOf(probe.arg.features[1]) = Str(<<"I", "s", "l", "e">>)
    /\ NameOf(probe.arg.features[2]) = Str(<<"L", "a", "n", "d">>)
    /\ Covering(probe.arg.features, probe.arg.lat, probe.arg.lng) = {1, 2}
    /\ probe.outs = <<Str(<<"I", "s", "l", "e">>)>>

\* C19: a point is inside a Polygon feature iff pointInPolygon holds for at
\* least one of its rings, and inside a MultiPolygon feature iff it holds for
\* at least one ring of at least one of its polygons; a ring after the first is
\* never subtracted as a hole.
C19_AnyRingContains ==
    (probe.fn = "getCountry" /\ probe.outs # <<>> /\ Len(probe.arg.features) = 1) =>
        LET f == probe.arg.features[1]
            lat == probe.arg.lat
            lng == probe.arg.lng
        IN  /\ probe.outs[1] = NameOf(f)
                 <=> \E ring \in RingsOf(f) : pointInPolygon(lat, lng, ring)
            /\ probe.outs[1] \in {NameOf(f), Null}
            /\ (\E ring \in RingsOf(f) : WithinBox(ring, lat, lng)) => probe.outs[1] = NameOf(f)

\* (1.5, 1.5) lies in both rings of Atoll, the second inside the first, and is
\* in Atoll
C19_Witness ==
    /\ probe.fn = "getCountry"
    /\ Len(probe.arg.features) = 1
    /\ NameOf(probe.arg.features[1]) = Str(<<"A", "t", "o", "l", "l">>)
    /\ probe.arg.lat = One + One \div 2
    /\ probe.arg.lng = One + One \div 2
    /\ \A ring \in RingsOf(probe.arg.features[1]) :
          WithinBox(ring, probe.arg.lat, probe.arg.lng)
    /\ probe.outs = <<Str(<<"A", "t", "o", "l", "l">>)>>

\* C20: for the closed rectangular ring lng in [0,2], lat in [0,1], given as
\* [lng, lat] pairs, pointInPolygon is true for every point strictly inside and
\* false for every point strictly outside, whatever the corner the ring starts
\* at and whatever its winding direction.
C20_RectangleInside ==
    (probe.fn = "pointInPolygon" /\ probe.outs # <<>>) =>
        LET lat == probe.arg.lat
            lng == probe.arg.lng
        IN  /\ (0 < lng /\ lng < 2 * One /\ 0 < lat /\ lat < One) => probe.outs[1] = TRUE
            /\ (lng < 0 \/ lng > 2 * One \/ lat < 0 \/ lat > One) => probe.outs[1] = FALSE

\* (lat 0.5, lng 1.5) was found inside the ring started at [2,1] and wound the
\* other way round
C20_Witness ==
    /\ probe.fn = "pointInPolygon"
    /\ probe.arg.polygon
         = <<<<2 * One, One>>, <<0, One>>, <<0, 0>>, <<2 * One, 0>>, <<2 * One, One>>>>
    /\ probe.arg.lat = One \div 2
    /\ probe.arg.lng = One + One \div 2
    /\ probe.outs = <<TRUE>>

\* the loop of pointInPolygon is at, or has run through, the ring of the probe
InRayCast == probe.fn = "rayCast"

\* what holds at every point of the loop: the edges visited so far are the
\* first i - 1 edges, each once, every edge joining a vertex to the one before
\* it (the last for the first); no division was evaluated with the divisor 0;
\* what is returned is a boolean, after every edge was visited once
RayCastSound ==
    InRayCast =>
        LET n == Len(probe.arg.polygon)
        IN  /\ probe.i \in 1..(n + 1)
            /\ Len(probe.edges) = probe.i - 1
            /\ \A k \in 1..Len(probe.edges) :
                  probe.edges[k] = <<k, IF k = 1 THEN n ELSE k - 1>>
            /\ \A d \in 1..Len(probe.divisors) : probe.divisors[d] # 0
            /\ probe.outs # <<>>
                 => /\ Len(probe.edges) = n
                    /\ probe.outs[1] \in BOOLEAN
                    /\ probe.outs[1]
                         = pointInPolygon(probe.arg.lat, probe.arg.lng, probe.arg.polygon)

\* C21: pointInPolygon terminates after one visit of each edge and returns a
\* boolean without throwing, for every ring and point: an empty ring, a point
\* on a vertex or on an edge, rings with horizontal edges; the divisor of the
\* x-intersection is never zero when the division is evaluated.
C21_RayCastTerminates ==
    /\ []RayCastSound
    /\ <>(InRayCast => probe.outs # <<>>)

\* the loop ran over the rectangle for the point (lat 1, lng 1) on its upper,
\* horizontal edge, and returned; and it returned false for the empty ring
C21_Witness ==
    /\ InRayCast
    /\ probe.outs # <<>>
    /\ \/ /\ Len(probe.arg.polygon) = 5
          /\ probe.arg.lat = One
          /\ probe.arg.lng = One
          /\ probe.divisors = <<>>
       \/ /\ probe.arg.polygon = <<>>
          /\ probe.outs = <<FALSE>>

====
